---------------------------- MODULE Spec2Model ----------------------------
(***************************************************************************)
(* Verification model of the wallet RPC surface of the 42 node             *)
(* (src/src/rpcwallet.cpp) and of the parts of the staking core that the   *)
(* specification describes.                                                *)
(*                                                                         *)
(* The module holds several specifications over one set of variables:      *)
(*   SpecRelock      walletpassphrase, walletlock, the                     *)
(*                   ThreadCleanWalletPassphrase workers and a clock       *)
(*   SpecUnlockOnly  the same without walletlock                           *)
(*   SpecMint        SpecRelock with the sending calls                     *)
(*   SpecMove        moves between accounts                                *)
(*   SpecSend        sendfrom and sendmany                                 *)
(*   SpecNames       the calls that take an account name                   *)
(*   SpecLocks       SpecRelock with the handlers that take cs_main and    *)
(*                   cs_wallet, each cut at its lock operations            *)
(*   SpecStake       the stake miner thread, the chain tip and the         *)
(*                   network clock, as the specification describes them    *)
(*   SpecEnc         the calls that depend on the wallet being encrypted   *)
(*   SpecList        listtransactions                                      *)
(*   SpecSince       listsinceblock on a growing wallet and chain          *)
(*   SpecReserve     reservebalance                                        *)
(*   SpecAccounts    listaccounts against the balance of getbalance        *)
(*   SpecStun        GetExternalIPbySTUN (src/src/stun.cpp)                *)
(*   SpecStunStep    the loop of GetExternalIPbySTUN that draws the step   *)
(*   SpecKernel      getCoinDay and getPoSReward of a KernelRecord         *)
(*                   (src/src/stun.cpp)                                    *)
(*   SpecProb        getProbToMintWithinNMinutes and its cache             *)
(*   SpecDecompose   decomposeOutput and getTxID                           *)
(*   SpecGuard       SpecRelock with walletpassphrase cut at the write of  *)
(*                   the mint-only flag, and sendfrom and sendmany         *)
(* Each specification leaves the variables of the others at their initial  *)
(* value.                                                                  *)
(***************************************************************************)
EXTENDS Integers, Sequences, FiniteSets, TLC

(***************************************************************************)
(* Bounds of the model                                                     *)
(***************************************************************************)
\* number of relocker thread slots (threads alive or spawned at one time)
MaxThreads == 2
\* largest timeout, in seconds, passed to walletpassphrase
MaxTimeout == 2
\* the clock runs from T0 to MaxTime seconds
MaxTime == 4
\* keys the wallet can hand out
MaxKeys == 2
\* wallet transactions kept
MaxTx == 2
\* accounting entries kept (two per move)
MaxEntries == 4
\* deepest confirmation depth told apart
MaxDepth == 1
\* largest order position handed out
MaxOrderPos == 6
\* most recipients in one sendmany call
MaxRecipients == 2
\* redeem scripts told apart
MaxScripts == 1
\* malleable keys the wallet can generate
MaxMalleable == 1
\* size the key pool is topped up to
KeyPoolTarget == 1
\* RPC handlers that take locks and run at one time
MaxRpcThreads == 2
\* the network clock runs up to MaxStakeTime seconds
MaxStakeTime == 6
\* blocks connected to the best chain
MaxBlocks == 3
\* number of transactions and accounting entries of the listed wallet
MaxListItems == 2
\* height of the best block at which the chain stops growing
MaxHeight == 2
\* largest fraction of a coin, and largest number of whole coins, that a
\* reservebalance call names
MaxReserve == 9
\* latest nTime of a kernel record, in units of twelve hours
MaxKernelTime == 82

\* the outputs of a transaction handed to decomposeOutput
MaxOuts == 3

VARIABLES
    now,                    \* GetTimeMillis()
    fCrypted,               \* pwalletMain->IsCrypted()
    fLocked,                \* pwalletMain->IsLocked()
    nWalletUnlockTime,      \* rpcwallet.cpp:16
    fWalletUnlockMintOnly,  \* global flag written by walletpassphrase
    csHolder,               \* owner of cs_nWalletUnlockTime, NoThread when free
    thr,                    \* the ThreadCleanWalletPassphrase instances
    unlockDeadline,         \* history: call time + timeout of the unlock that opened the wallet, 0 once relocked
    rpc,                    \* history: the RPC call made by the last step, NoRpc otherwise
    mapWallet,              \* pwalletMain->mapWallet, the wallet transactions in order of arrival
    acentries,              \* the accounting entries of the wallet database ("acentry")
    nOrderPosNext,          \* pwalletMain->nOrderPosNext
    mapAddressBook,         \* pwalletMain->mapAddressBook: address -> account, NoEntry when absent
    mapAccountKey,          \* CAccount::vchPubKey of each account ("acc" records), 0 when unset
    nKeysUsed,              \* keys handed out so far: the wallet's own addresses are 1..nKeysUsed
    nKeyPool,               \* pwalletMain->GetKeyPoolSize()
    mapScripts,             \* the redeem scripts added with AddCScript, by id
    nMalleable,             \* malleable keys generated
    lastMove,               \* history: the last successful move, NoMove after any other change
    snap,                   \* history: every account balance before the last successful move
    cs_main,                \* owner of cs_main, NoThread when free
    cs_wallet,              \* owner of pwalletMain->cs_wallet, NoThread when free
    rpcThr,                 \* the RPC handlers that are between two lock operations
    nAdjustedTime,          \* GetAdjustedTime(), in seconds
    pindexBest,             \* the tip of the best chain: its hash and its nTime
    nBlocks,                \* blocks connected so far; the next block hash
    setSpent,               \* the staking outputs of the wallet that are spent
    fSynced,                \* the node is synced to the network
    stakeMiner,             \* the stake miner thread: its position and the block it waits on
    setStakeEmitted,        \* history: (prev-hash, coinstake-input) of every block emitted
    fShutdown,              \* StartShutdown() has been called
    ret,                    \* history: the value returned by the last call that returns one
    lastArgs,               \* history: the arguments of that call, defaults filled in
    nBestHeight,            \* height of the best block of the main chain
    nReserveBalance,        \* the stored reserve
    mapArgs,                \* mapArgs["-reservebalance"], NoArg when it is not set
    stun,                   \* the GetExternalIPbySTUN call: its position and locals
    kernel                  \* a KernelRecord and the stake ages of the network, NoKernel before it is built

relockVars == <<now, fCrypted, fLocked, nWalletUnlockTime, fWalletUnlockMintOnly,
                csHolder, thr, unlockDeadline>>
acctVars == <<mapWallet, acentries, nOrderPosNext, mapAddressBook, mapAccountKey,
              nKeysUsed, nKeyPool, mapScripts, nMalleable>>
histVars == <<lastMove, snap>>
lockVars == <<cs_main, cs_wallet, rpcThr>>
stakeVars == <<nAdjustedTime, pindexBest, nBlocks, setSpent, fSynced, stakeMiner,
               setStakeEmitted>>
auxVars == <<fShutdown, ret, lastArgs, nBestHeight, nReserveBalance, mapArgs, stun, kernel>>
vars == <<now, fCrypted, fLocked, nWalletUnlockTime, fWalletUnlockMintOnly,
          csHolder, thr, unlockDeadline, rpc, mapWallet, acentries, nOrderPosNext,
          mapAddressBook, mapAccountKey, nKeysUsed, nKeyPool, mapScripts, nMalleable,
          lastMove, snap, cs_main, cs_wallet, rpcThr, nAdjustedTime, pindexBest,
          nBlocks, setSpent, fSynced, stakeMiner, setStakeEmitted, fShutdown, ret,
          lastArgs, nBestHeight, nReserveBalance, mapArgs, stun, kernel>>
\* what the unlock / relock code never touches
notRelock == <<acctVars, histVars, stakeVars, auxVars>>

(***************************************************************************)
(* RPC results.  A handler either returns ("ok") or throws; the model      *)
(* records the error code it throws.                                       *)
(***************************************************************************)
\* What the history keeps of the arguments of a sending call: cleanDup, the
\* recipients repeat a valid address that is no pair address after entries
\* that are all acceptable; valid, the
\* account, every address and every amount are acceptable; over, the total
\* asked for exceeds the spendable balance of the account at the given minconf
\* (for setaccount, valid tells that the address is valid); typed, every
\* argument converted before the account name has the JSON type asked for.
NoArgs == [cleanDup |-> FALSE, valid |-> FALSE, over |-> FALSE, typed |-> TRUE]

NoRpc == [name |-> "none", code |-> "none", star |-> FALSE, args |-> NoArgs]

\* no value returned
NoRet == <<>>
\* a command-line argument that is not set
NoArg == [whole |-> -1, frac |-> 0]
\* no call recorded
NoCall == [name |-> "none"]

\* star: the call named "*" where it takes an account
Call(name, code, star) == [name |-> name, code |-> code, star |-> star, args |-> NoArgs]

CallSend(name, code, star, args) ==
    [name |-> name, code |-> code, star |-> star, args |-> args]

(***************************************************************************)
(* The clock.  GetTimeMillis() counts milliseconds; the model advances it  *)
(* one second at a time from T0.                                           *)
(***************************************************************************)
T0 == 1
Millis(sec) == sec * 1000

ThreadIds == 1..MaxThreads
NoThread == 0
Timeouts == 1..MaxTimeout

IdleThread == [pc |-> "idle", parg |-> 0, nMyWakeTime |-> 0, wakeAt |-> 0]

\* the threads that serve RPC requests are numbered after the relockers
RpcIds == (MaxThreads + 1)..(MaxThreads + MaxRpcThreads)
IdleRpc == [op |-> "none", pc |-> "idle"]


(***************************************************************************)
(* Wallet data.  Addresses are numbers: 0 is a string that is no valid     *)
(* address, 1..MaxKeys are the wallet's own keys in the order they were    *)
(* handed out, then one imported watch-only address, one valid address of  *)
(* somebody else, and one valid malleable-pair address of somebody else.   *)
(* Amounts are whole multiples of half the smallest accepted input value.  *)
(***************************************************************************)
InvalidAddr == 0
WatchAddr == MaxKeys + 1
ExtAddr == MaxKeys + 2
PairAddr == MaxKeys + 3
\* then come the addresses of the redeem scripts and of the wallet's own
\* malleable keys
ScriptIds == 1..MaxScripts
ScriptAddr(j) == MaxKeys + 3 + j
MalleableAddr(j) == MaxKeys + 3 + MaxScripts + j
BookAddrs ==
    (1..(MaxKeys + 1)) \cup {ScriptAddr(j) : j \in ScriptIds}
                       \cup {MalleableAddr(j) : j \in 1..MaxMalleable}

NoEntry == "<none>"
AccountNames == {"", "A", "B"}
Wildcard == "*"

\* CBitcoinAddress::IsValid, CBitcoinAddress::IsPair
IsValid(addr) == addr # InvalidAddr
IsPair(addr) == addr = PairAddr \/ addr > MaxKeys + 3 + MaxScripts

\* IsMine(*pwalletMain, address)
MINE_NO == "no"
MINE_SPENDABLE == "spendable"
MINE_WATCH_ONLY == "watch"
IsMine(addr) ==
    IF addr \in 1..nKeysUsed THEN MINE_SPENDABLE
    ELSE IF addr = WatchAddr THEN MINE_WATCH_ONLY
    ELSE MINE_NO

\* an isminefilter is the set of ownership kinds it lets through
FilterSpendable == {MINE_SPENDABLE}
FilterAll == {MINE_SPENDABLE, MINE_WATCH_ONLY}

\* smallest amount a sending call accepts, in model units
nMinimumInputValue == 2

\* A wallet transaction as the accounting code sees it: the account it was
\* sent from and what it sent and paid in fees (0 when not from this wallet),
\* the address it credits and with how much (0 when none), its depth in the
\* main chain and whether it is final.
WalletTx(from, sent, fee, addr, credit, depth, final) ==
    [strFromAccount |-> from, nSent |-> sent, nFee |-> fee, addr |-> addr,
     nCredit |-> credit, depth |-> depth, fFinal |-> final]

\* CAccountingEntry
AccountingEntry(pos, account, amount, other) ==
    [nOrderPos |-> pos, strAccount |-> account, nCreditDebit |-> amount,
     strOtherAccount |-> other]

RECURSIVE SumSeq(_, _)
\* the sum of f[k] over k = 1..n
SumSeq(f, n) == IF n = 0 THEN 0 ELSE f[n] + SumSeq(f, n - 1)

\* CWalletTx::GetAccountAmounts(strAccount, nGenerated, nReceived, nSent, nFee, filter):
\* what is sent and the fee count for the account the transaction was sent
\* from; a credit counts for the account its address is booked under, and for
\* the default account "" when the address is in no book.
GetAccountAmounts(wtx, strAccount, filter) ==
    LET fromMe == wtx.nSent > 0 /\ strAccount = wtx.strFromAccount
        booked == IF wtx.addr \in BookAddrs THEN mapAddressBook[wtx.addr] ELSE NoEntry
        mine == wtx.nCredit > 0 /\ IsMine(wtx.addr) \in filter
        forMe == IF booked # NoEntry THEN booked = strAccount ELSE strAccount = ""
    IN [nGenerated |-> 0,
        nReceived |-> IF mine /\ forMe THEN wtx.nCredit ELSE 0,
        nSent |-> IF fromMe THEN wtx.nSent ELSE 0,
        nFee |-> IF fromMe THEN wtx.nFee ELSE 0]

\* CWalletDB::GetAccountCreditDebit(strAccount): the signed sum of the
\* account's accounting entries
GetAccountCreditDebit(strAccount) ==
    SumSeq([k \in 1..Len(acentries) |->
                IF acentries[k].strAccount = strAccount
                THEN acentries[k].nCreditDebit ELSE 0], Len(acentries))

\* what one wallet transaction adds to the balance (rpcwallet.cpp:556-565)
TallyTx(wtx, strAccount, nMinDepth, filter) ==
    LET amt == GetAccountAmounts(wtx, strAccount, filter) IN
    IF ~wtx.fFinal THEN 0
    ELSE (IF amt.nReceived # 0 /\ wtx.depth >= nMinDepth THEN amt.nReceived ELSE 0)
         + amt.nGenerated - amt.nSent - amt.nFee

\* GetAccountBalance (rpcwallet.cpp:549-572)
GetAccountBalance(strAccount, nMinDepth, filter) ==
    SumSeq([k \in 1..Len(mapWallet) |->
                TallyTx(mapWallet[k], strAccount, nMinDepth, filter)], Len(mapWallet))
    + GetAccountCreditDebit(strAccount)

\* AccountFromValue without the test for "*"
AccountFromValueNeverThrows(strAccount) == FALSE

\* AccountFromValue (rpcwallet.cpp:56-62): TRUE when it throws
AccountFromValueThrows(strAccount) == strAccount = Wildcard

\* AmountFromValue: the error it throws for an amount that is not positive
AmountFromValueThrows(nAmount) == nAmount <= 0

(***************************************************************************)
(* EnsureWalletIsUnlocked (rpcwallet.cpp:29-35): the error it throws, or   *)
(* "ok" when it returns.                                                   *)
(***************************************************************************)
EnsureWalletIsUnlocked ==
    IF fLocked THEN "RPC_WALLET_UNLOCK_NEEDED"
    ELSE IF fWalletUnlockMintOnly THEN "RPC_WALLET_UNLOCK_NEEDED"
    ELSE "ok"

(***************************************************************************)
(* NewThread(ThreadCleanWalletPassphrase, pnSleepTime): the new thread     *)
(* takes the lowest free slot; it has not run yet.                         *)
(***************************************************************************)
FreeSlots == {i \in ThreadIds : thr[i].pc = "idle"}

LowestFree == CHOOSE i \in FreeSlots : \A j \in FreeSlots : i <= j

NewThread(timeout) ==
    [thr EXCEPT ![LowestFree] =
        [pc |-> "spawned", parg |-> timeout, nMyWakeTime |-> 0, wakeAt |-> 0]]

(***************************************************************************)
(* walletpassphrase <passphrase> <timeout> [mintonly]                      *)
(* (rpcwallet.cpp:1546-1588).  pass is "good", "bad" or "" (empty);        *)
(* mintonly is "true", "false", or "absent" when the third parameter is  *)
(* not given.  The handler takes no lock of this file.                     *)
(***************************************************************************)
\* params.size() > 2 ? params[2].get_bool() : false (lines 1582-1585)
MintOnlyParam(mintonly) == mintonly = "true"

\* walletpassphrase without the test of lines 1558-1559 (a wallet that is
\* already unlocked is unlocked again)
walletpassphraseCodeNoUnlockedTest(pass) ==
    IF ~fCrypted THEN "RPC_WALLET_WRONG_ENC_STATE"
    ELSE IF pass = "" THEN "runtime_error"
    ELSE IF pass = "bad" THEN "RPC_WALLET_PASSPHRASE_INCORRECT"
    ELSE "ok"

walletpassphraseCode(pass) ==
    IF ~fCrypted THEN "RPC_WALLET_WRONG_ENC_STATE"
    ELSE IF ~fLocked THEN "RPC_WALLET_ALREADY_UNLOCKED"
    ELSE IF pass = "" THEN "runtime_error"
    ELSE IF pass = "bad" THEN "RPC_WALLET_PASSPHRASE_INCORRECT"
    ELSE "ok"

walletpassphrase(pass, timeout, mintonly) ==
    LET code == walletpassphraseCode(pass) IN
    /\ rpc' = Call("walletpassphrase", code, FALSE)
    /\ UNCHANGED notRelock
    /\ UNCHANGED lockVars
    /\ IF code = "ok"
       THEN /\ FreeSlots # {}
            /\ fLocked' = FALSE
            /\ thr' = NewThread(timeout)
            /\ fWalletUnlockMintOnly' = MintOnlyParam(mintonly)
            /\ unlockDeadline' = now + Millis(timeout)
            /\ UNCHANGED <<now, fCrypted, nWalletUnlockTime, csHolder>>
       ELSE UNCHANGED relockVars

(***************************************************************************)
(* The three critical sections.  A thread that asks for a lock another     *)
(* thread owns waits until it is free.                                     *)
(***************************************************************************)
Holder(lock) ==
    CASE lock = "cs_main" -> cs_main
      [] lock = "cs_wallet" -> cs_wallet
      [] lock = "cs_nWalletUnlockTime" -> csHolder

FreeRpc == {r \in RpcIds : rpcThr[r].pc = "idle"}

LowestFreeRpc == CHOOSE r \in FreeRpc : \A q \in FreeRpc : r <= q

\* a thread of the RPC server starts to serve the call op
StartRpc(op, pc) == [rpcThr EXCEPT ![LowestFreeRpc] = [op |-> op, pc |-> pc]]

\* pwalletMain->Lock() runs under the wallet's own lock
LockMutex == "cs_wallet"

(***************************************************************************)
(* walletpassphrase as the threads of the RPC server run it: the handler   *)
(* takes no lock, so another handler may run between Unlock (line 1569)    *)
(* and the write of fWalletUnlockMintOnly (lines 1581-1584).               *)
(***************************************************************************)
\* the stretch of the handler that is left after NewThread (line 1578)
walletpassphraseAfterUnlock(mintonly) ==
    IF MintOnlyParam(mintonly) THEN "setMintOnlyTrue" ELSE "setMintOnlyFalse"

\* lines 1548-1578: the tests, Unlock and NewThread
walletpassphraseUnlock(pass, timeout, mintonly) ==
    LET code == walletpassphraseCode(pass) IN
    /\ UNCHANGED <<acctVars, histVars, stakeVars, cs_main, cs_wallet>>
    /\ UNCHANGED <<fShutdown, ret, nBestHeight, nReserveBalance, mapArgs, stun, kernel>>
    /\ IF code = "ok"
       THEN /\ FreeSlots # {}
            /\ FreeRpc # {}
            /\ fLocked' = FALSE
            /\ thr' = NewThread(timeout)
            /\ unlockDeadline' = now + Millis(timeout)
            /\ lastArgs' = [name |-> "walletpassphrase",
                            mintonly |-> MintOnlyParam(mintonly)]
            /\ rpcThr' = StartRpc("walletpassphrase", walletpassphraseAfterUnlock(mintonly))
            /\ rpc' = NoRpc
            /\ UNCHANGED fWalletUnlockMintOnly
            /\ UNCHANGED <<now, fCrypted, nWalletUnlockTime, csHolder>>
       ELSE /\ rpc' = Call("walletpassphrase", code, FALSE)
            /\ UNCHANGED <<relockVars, rpcThr, lastArgs>>

\* lines 1580-1587: the flag is written and the handler returns
walletpassphraseSetMintOnly(r) ==
    /\ rpcThr[r].op = "walletpassphrase"
    /\ fWalletUnlockMintOnly' = (rpcThr[r].pc = "setMintOnlyTrue")
    /\ rpcThr' = [rpcThr EXCEPT ![r] = IdleRpc]
    /\ rpc' = Call("walletpassphrase", "ok", FALSE)
    /\ UNCHANGED notRelock
    /\ UNCHANGED <<cs_main, cs_wallet>>
    /\ UNCHANGED <<now, fCrypted, fLocked, nWalletUnlockTime, csHolder, thr,
                   unlockDeadline>>

(***************************************************************************)
(* walletlock (rpcwallet.cpp:1624-1644), one action per stretch of code    *)
(* between two lock operations.                                            *)
(***************************************************************************)
\* lines 1626-1638: the tests, then LOCK(cs_nWalletUnlockTime), which blocks
\* while another thread owns the lock
walletlock ==
    /\ UNCHANGED notRelock
    /\ UNCHANGED <<cs_main, cs_wallet>>
    /\ UNCHANGED <<now, fCrypted, fLocked, nWalletUnlockTime, fWalletUnlockMintOnly,
                   thr, unlockDeadline>>
    /\ IF ~fCrypted
       THEN /\ rpc' = Call("walletlock", "RPC_WALLET_WRONG_ENC_STATE", FALSE)
            /\ UNCHANGED <<csHolder, rpcThr>>
       ELSE /\ FreeRpc # {}
            /\ csHolder = NoThread
            /\ csHolder' = LowestFreeRpc
            /\ rpcThr' = StartRpc("walletlock", "lock")
            /\ rpc' = NoRpc

\* line 1639: pwalletMain->Lock() takes the wallet's lock
walletlockLock(r) ==
    /\ UNCHANGED notRelock
    /\ rpcThr[r].pc = "lock"
    /\ Holder(LockMutex) = NoThread
    /\ cs_wallet' = r
    /\ rpcThr' = [rpcThr EXCEPT ![r].pc = "locked"]
    /\ rpc' = NoRpc
    /\ UNCHANGED relockVars
    /\ UNCHANGED cs_main

\* lines 1639-1643: the wallet is locked and Lock() returns, the unlock time
\* is cleared and the block ends
walletlockLocked(r) ==
    /\ UNCHANGED notRelock
    /\ rpcThr[r].pc = "locked"
    /\ fLocked' = TRUE
    /\ cs_wallet' = NoThread
    /\ nWalletUnlockTime' = 0
    /\ csHolder' = NoThread
    /\ unlockDeadline' = 0
    /\ rpcThr' = [rpcThr EXCEPT ![r] = IdleRpc]
    /\ rpc' = Call("walletlock", "ok", FALSE)
    /\ UNCHANGED <<now, fCrypted, fWalletUnlockMintOnly, thr, cs_main>>

(***************************************************************************)
(* ThreadCleanWalletPassphrase (rpcwallet.cpp:1502-1544), one action per   *)
(* stretch of code between two points where other threads may run.         *)
(***************************************************************************)
\* line 1507: nMyWakeTime = GetTimeMillis() + *parg * 1000, then the thread
\* waits at ENTER_CRITICAL_SECTION (line 1509)
ThreadStart(i) ==
    /\ UNCHANGED notRelock
    /\ UNCHANGED lockVars
    /\ thr[i].pc = "spawned"
    /\ thr' = [thr EXCEPT ![i] = [pc |-> "enter", parg |-> 0,
                                   nMyWakeTime |-> now + Millis(thr[i].parg),
                                   wakeAt |-> 0]]
    /\ rpc' = NoRpc
    /\ UNCHANGED <<now, fCrypted, fLocked, nWalletUnlockTime, fWalletUnlockMintOnly,
                   csHolder, unlockDeadline>>

\* line 1509: ENTER_CRITICAL_SECTION(cs_nWalletUnlockTime)
ThreadEnter(i) ==
    /\ UNCHANGED notRelock
    /\ UNCHANGED lockVars
    /\ thr[i].pc = "enter"
    /\ csHolder = NoThread
    /\ csHolder' = i
    /\ thr' = [thr EXCEPT ![i].pc = "cs"]
    /\ rpc' = NoRpc
    /\ UNCHANGED <<now, fCrypted, fLocked, nWalletUnlockTime, fWalletUnlockMintOnly,
                   unlockDeadline>>

\* lines 1515-1533 from the top of the for loop, with nWalletUnlockTime = u:
\* either the thread leaves the critical section to Sleep(nToSleep), or it
\* breaks out of the loop; then, if nWalletUnlockTime is set, it clears it
\* and calls pwalletMain->Lock() (line 1532), else it leaves the critical
\* section and ends.
LoopFrom(i, u) ==
    IF u # 0 /\ u - now > 0
    THEN /\ nWalletUnlockTime' = u
         /\ thr' = [thr EXCEPT ![i] = [pc |-> "sleep", parg |-> 0, nMyWakeTime |-> 0,
                                        wakeAt |-> now + (u - now)]]
         /\ csHolder' = NoThread
    ELSE IF u # 0
    THEN /\ nWalletUnlockTime' = 0
         /\ thr' = [thr EXCEPT ![i] = [pc |-> "relock", parg |-> 0, nMyWakeTime |-> 0,
                                        wakeAt |-> 0]]
         /\ UNCHANGED csHolder
    ELSE /\ nWalletUnlockTime' = 0
         /\ thr' = [thr EXCEPT ![i] = IdleThread]
         /\ csHolder' = NoThread

\* lines 1511-1541 on first entry
ThreadBody(i) ==
    /\ UNCHANGED notRelock
    /\ UNCHANGED lockVars
    /\ thr[i].pc = "cs"
    /\ csHolder = i
    /\ IF nWalletUnlockTime = 0
       THEN LoopFrom(i, thr[i].nMyWakeTime)
       ELSE /\ nWalletUnlockTime' =
                   IF nWalletUnlockTime < thr[i].nMyWakeTime
                   THEN thr[i].nMyWakeTime ELSE nWalletUnlockTime
            /\ thr' = [thr EXCEPT ![i] = IdleThread]
            /\ csHolder' = NoThread
    /\ rpc' = NoRpc
    /\ UNCHANGED <<now, fCrypted, fLocked, fWalletUnlockMintOnly, unlockDeadline>>

\* lines 1524-1525: Sleep(nToSleep) returns, ENTER_CRITICAL_SECTION
ThreadWake(i) ==
    /\ UNCHANGED notRelock
    /\ UNCHANGED lockVars
    /\ thr[i].pc = "sleep"
    /\ now >= thr[i].wakeAt
    /\ csHolder = NoThread
    /\ csHolder' = i
    /\ thr' = [thr EXCEPT ![i].pc = "loop"]
    /\ rpc' = NoRpc
    /\ UNCHANGED <<now, fCrypted, fLocked, nWalletUnlockTime, fWalletUnlockMintOnly,
                   unlockDeadline>>

\* the next iteration of the for loop
ThreadLoop(i) ==
    /\ UNCHANGED notRelock
    /\ UNCHANGED lockVars
    /\ thr[i].pc = "loop"
    /\ csHolder = i
    /\ LoopFrom(i, nWalletUnlockTime)
    /\ rpc' = NoRpc
    /\ UNCHANGED <<now, fCrypted, fLocked, fWalletUnlockMintOnly, unlockDeadline>>

\* line 1532: pwalletMain->Lock() takes the wallet's lock
ThreadRelock(i) ==
    /\ UNCHANGED notRelock
    /\ thr[i].pc = "relock"
    /\ csHolder = i
    /\ Holder(LockMutex) = NoThread
    /\ cs_wallet' = i
    /\ thr' = [thr EXCEPT ![i].pc = "locking"]
    /\ rpc' = NoRpc
    /\ UNCHANGED <<now, fCrypted, fLocked, nWalletUnlockTime, fWalletUnlockMintOnly,
                   csHolder, unlockDeadline, cs_main, rpcThr>>

\* lines 1532-1541: the wallet is locked and Lock() returns, the thread
\* leaves the critical section and ends
ThreadRelocked(i) ==
    /\ UNCHANGED notRelock
    /\ thr[i].pc = "locking"
    /\ fLocked' = TRUE
    /\ cs_wallet' = NoThread
    /\ unlockDeadline' = 0
    /\ csHolder' = NoThread
    /\ thr' = [thr EXCEPT ![i] = IdleThread]
    /\ rpc' = NoRpc
    /\ UNCHANGED <<now, fCrypted, nWalletUnlockTime, fWalletUnlockMintOnly,
                   cs_main, rpcThr>>

(***************************************************************************)
(* walletpassphrasechange <oldpassphrase> <newpassphrase>                  *)
(* (rpcwallet.cpp:1590-1622).  nParams is params.size(); a passphrase is   *)
(* "good", "bad" or "" (empty).                                            *)
(***************************************************************************)
walletpassphrasechangeCode(strOld, strNew, nParams) ==
    IF fCrypted /\ nParams # 2 THEN "runtime_error"
    ELSE IF ~fCrypted THEN "RPC_WALLET_WRONG_ENC_STATE"
    ELSE IF strOld = "" \/ strNew = "" THEN "runtime_error"
    ELSE IF strOld # "good" THEN "RPC_WALLET_PASSPHRASE_INCORRECT"
    ELSE "ok"

\* pwalletMain->ChangeWalletPassphrase is code of the wallet: it may leave
\* the wallet locked (fLockedAfter) but never unlocks it
walletpassphrasechange(strOld, strNew, nParams, fLockedAfter) ==
    LET code == walletpassphrasechangeCode(strOld, strNew, nParams) IN
    /\ rpc' = Call("walletpassphrasechange", code, FALSE)
    /\ UNCHANGED notRelock
    /\ UNCHANGED lockVars
    /\ UNCHANGED <<now, fCrypted, nWalletUnlockTime, fWalletUnlockMintOnly, csHolder, thr>>
    /\ IF code \in {"ok", "RPC_WALLET_PASSPHRASE_INCORRECT"}
       THEN /\ fLocked' = (fLocked \/ fLockedAfter)
            /\ unlockDeadline' = IF fLocked' THEN 0 ELSE unlockDeadline
       ELSE UNCHANGED <<fLocked, unlockDeadline>>

(***************************************************************************)
(* encryptwallet <passphrase> (rpcwallet.cpp:1647-1677).  outcome tells    *)
(* whether pwalletMain->EncryptWallet succeeds; an encrypted wallet is     *)
(* locked.                                                                 *)
(***************************************************************************)
\* encryptwallet without the test of lines 1655-1656
encryptwalletCodeNoCryptedTest(strWalletPass, nParams, outcome) ==
    IF ~fCrypted /\ nParams # 1 THEN "runtime_error"
    ELSE IF strWalletPass = "" THEN "runtime_error"
    ELSE IF outcome = "failed" THEN "RPC_WALLET_ENCRYPTION_FAILED"
    ELSE "ok"

encryptwalletCode(strWalletPass, nParams, outcome) ==
    IF ~fCrypted /\ nParams # 1 THEN "runtime_error"
    ELSE IF fCrypted THEN "RPC_WALLET_WRONG_ENC_STATE"
    ELSE IF strWalletPass = "" THEN "runtime_error"
    ELSE IF outcome = "failed" THEN "RPC_WALLET_ENCRYPTION_FAILED"
    ELSE "ok"

encryptwallet(strWalletPass, nParams, outcome) ==
    LET code == encryptwalletCode(strWalletPass, nParams, outcome) IN
    /\ rpc' = Call("encryptwallet", code, FALSE)
    /\ UNCHANGED <<acctVars, histVars, stakeVars, lockVars, ret, lastArgs, nBestHeight,
                   nReserveBalance, mapArgs, stun, kernel>>
    /\ UNCHANGED <<now, nWalletUnlockTime, fWalletUnlockMintOnly, csHolder, thr,
                   unlockDeadline>>
    /\ IF code = "ok"
       THEN /\ fCrypted' = TRUE
            /\ fLocked' = TRUE
            /\ fShutdown' = TRUE
       ELSE UNCHANGED <<fCrypted, fLocked, fShutdown>>

(***************************************************************************)
(* resendwallettransactions (rpcwallet.cpp:1870-1890).                     *)
(***************************************************************************)
\* line 1881 with its two locks in the other order
resendLockOrderReversed == <<"cs_wallet", "cs_main">>

\* line 1881: LOCK2(cs_main, pwalletMain->cs_wallet) takes its first
\* argument, then its second
resendLockOrder == <<"cs_main", "cs_wallet">>

TakeLock(lock, t) ==
    /\ Holder(lock) = NoThread
    /\ cs_main' = IF lock = "cs_main" THEN t ELSE cs_main
    /\ cs_wallet' = IF lock = "cs_wallet" THEN t ELSE cs_wallet

\* lines 1872-1881: the call is made with no parameter; LOCK2 takes its
\* first lock
resendwallettransactions ==
    /\ UNCHANGED notRelock
    /\ UNCHANGED relockVars
    /\ FreeRpc # {}
    /\ TakeLock(resendLockOrder[1], LowestFreeRpc)
    /\ rpcThr' = StartRpc("resendwallettransactions", "lock2")
    /\ rpc' = NoRpc

\* line 1881: LOCK2 takes its second lock
resendLockSecond(r) ==
    /\ UNCHANGED notRelock
    /\ UNCHANGED relockVars
    /\ rpcThr[r].pc = "lock2"
    /\ TakeLock(resendLockOrder[2], r)
    /\ rpcThr' = [rpcThr EXCEPT ![r].pc = "resend"]
    /\ rpc' = NoRpc

\* lines 1883-1889: ResendWalletTransactionsBefore rebroadcasts and changes
\* nothing in the wallet; the handler returns and both locks are released
resendReturn(r) ==
    /\ UNCHANGED notRelock
    /\ UNCHANGED relockVars
    /\ rpcThr[r].pc = "resend"
    /\ cs_main' = NoThread
    /\ cs_wallet' = NoThread
    /\ rpcThr' = [rpcThr EXCEPT ![r] = IdleRpc]
    /\ rpc' = Call("resendwallettransactions", "ok", FALSE)

(***************************************************************************)
(* listaddressgroupings (rpcwallet.cpp:360-388): for every address of      *)
(* every grouping the handler takes cs_wallet to read the address book.    *)
(***************************************************************************)
\* lines 362-371: more tells whether the groupings hold an address
listaddressgroupings(more) ==
    /\ UNCHANGED notRelock
    /\ UNCHANGED relockVars
    /\ UNCHANGED <<cs_main, cs_wallet>>
    /\ FreeRpc # {}
    /\ IF more
       THEN /\ rpcThr' = StartRpc("listaddressgroupings", "book")
            /\ rpc' = NoRpc
       ELSE /\ rpc' = Call("listaddressgroupings", "ok", FALSE)
            /\ UNCHANGED rpcThr

\* line 378: LOCK(pwalletMain->cs_wallet)
listLock(r) ==
    /\ UNCHANGED notRelock
    /\ UNCHANGED relockVars
    /\ rpcThr[r].pc = "book"
    /\ TakeLock("cs_wallet", r)
    /\ rpcThr' = [rpcThr EXCEPT ![r].pc = "read"]
    /\ rpc' = NoRpc

\* lines 379-386: the address book is read and the lock released; more
\* tells whether another address follows
listUnlock(r, more) ==
    /\ UNCHANGED notRelock
    /\ UNCHANGED relockVars
    /\ rpcThr[r].pc = "read"
    /\ cs_wallet' = NoThread
    /\ UNCHANGED cs_main
    /\ IF more
       THEN /\ rpcThr' = [rpcThr EXCEPT ![r].pc = "book"]
            /\ rpc' = NoRpc
       ELSE /\ rpcThr' = [rpcThr EXCEPT ![r] = IdleRpc]
            /\ rpc' = Call("listaddressgroupings", "ok", FALSE)

(***************************************************************************)
(* The clock advances only when no relocker can take a step: a thread that *)
(* is ready runs before the next second begins (scheduling delay is below  *)
(* the clock's grain), and a sleeping thread sleeps for nToSleep.          *)
(***************************************************************************)
Runnable(i) ==
    \/ thr[i].pc \in {"spawned", "enter", "cs", "loop", "relock", "locking"}
    \/ thr[i].pc = "sleep" /\ now >= thr[i].wakeAt

Tick ==
    /\ UNCHANGED notRelock
    /\ UNCHANGED lockVars
    /\ now < Millis(MaxTime)
    /\ \A i \in ThreadIds : ~Runnable(i)
    /\ now' = now + Millis(1)
    /\ rpc' = NoRpc
    /\ UNCHANGED <<fCrypted, fLocked, nWalletUnlockTime, fWalletUnlockMintOnly,
                   csHolder, thr, unlockDeadline>>

(***************************************************************************)
(* History kept for the round-trip property of move.                       *)
(***************************************************************************)
MinDepths == 0..MaxDepth
\* amounts tried: below the smallest accepted value, accepted
MoveAmounts == {1, 2}
NoMove == [from |-> NoEntry, to |-> NoEntry, amount |-> 0]
NoSnap == [a \in AccountNames, m \in MinDepths |-> 0]
Balances == [a \in AccountNames, m \in MinDepths |-> GetAccountBalance(a, m, FilterSpendable)]

\* a call other than move: the history is dropped when the wallet changed
HistAfterOther ==
    /\ lastMove' = IF acctVars' = acctVars THEN lastMove ELSE NoMove
    /\ snap' = IF acctVars' = acctVars THEN snap ELSE NoSnap

(***************************************************************************)
(* move <fromaccount> <toaccount> <amount> (movecmd, rpcwallet.cpp:640-691)*)
(* db tells what the wallet database does: "ok", "begin" when TxnBegin     *)
(* fails, "commit" when TxnCommit fails (nothing of the transaction is     *)
(* then stored, but nOrderPosNext has been advanced in memory).            *)
(***************************************************************************)
movecmdCode(strFrom, strTo, nAmount, db) ==
    IF AccountFromValueThrows(strFrom) THEN "RPC_WALLET_INVALID_ACCOUNT_NAME"
    ELSE IF AccountFromValueThrows(strTo) THEN "RPC_WALLET_INVALID_ACCOUNT_NAME"
    ELSE IF AmountFromValueThrows(nAmount) THEN "RPC_TYPE_ERROR"
    ELSE IF nAmount < nMinimumInputValue THEN "-101"
    ELSE IF db # "ok" THEN "RPC_DATABASE_ERROR"
    ELSE "ok"

\* lines 667-675 and 677-685: the entries the handler writes
\* the debit entry written with the amount not negated
MoveDebitNotNegated(strFrom, strTo, nAmount) ==
    AccountingEntry(nOrderPosNext, strFrom, nAmount, strTo)

MoveDebit(strFrom, strTo, nAmount) ==
    AccountingEntry(nOrderPosNext, strFrom, 0 - nAmount, strTo)

\* the credit entry written at the order position of the debit
MoveCreditSamePos(strFrom, strTo, nAmount) ==
    AccountingEntry(nOrderPosNext, strTo, nAmount, strFrom)

MoveCredit(strFrom, strTo, nAmount) ==
    AccountingEntry(nOrderPosNext + 1, strTo, nAmount, strFrom)

movecmd(strFrom, strTo, nAmount, db) ==
    LET code == movecmdCode(strFrom, strTo, nAmount, db)
        reached == code = "ok" \/ (code = "RPC_DATABASE_ERROR" /\ db = "commit")
    IN
    /\ rpc' = Call("move", code, Wildcard \in {strFrom, strTo})
    /\ reached => Len(acentries) + 2 <= MaxEntries /\ nOrderPosNext + 2 <= MaxOrderPos
    /\ nOrderPosNext' = IF reached THEN nOrderPosNext + 2 ELSE nOrderPosNext
    /\ acentries' = IF code = "ok"
                    THEN acentries \o <<MoveDebit(strFrom, strTo, nAmount),
                                        MoveCredit(strFrom, strTo, nAmount)>>
                    ELSE acentries
    /\ lastMove' = IF code = "ok"
                   THEN [from |-> strFrom, to |-> strTo, amount |-> nAmount]
                   ELSE lastMove
    /\ snap' = IF code = "ok" THEN Balances ELSE snap
    /\ UNCHANGED <<mapWallet, mapAddressBook, mapAccountKey, nKeysUsed, nKeyPool,
                   mapScripts, nMalleable>>
    /\ UNCHANGED relockVars
    /\ UNCHANGED lockVars
    /\ UNCHANGED stakeVars
    /\ UNCHANGED auxVars

(***************************************************************************)
(* The sending calls.  CWallet::SendMoney, CreateTransaction,              *)
(* CommitTransaction and MergeCoins are wallet code outside this file; the *)
(* model takes their outcome as an input ("created" or "failed") and, when *)
(* a transaction is created, stores it the way AddToWallet does.           *)
(***************************************************************************)
AddToWallet(wtx) ==
    /\ Len(mapWallet) < MaxTx
    /\ nOrderPosNext + 1 <= MaxOrderPos
    /\ mapWallet' = Append(mapWallet, wtx)
    /\ nOrderPosNext' = nOrderPosNext + 1

\* what every sending call leaves alone
SendFrame ==
    /\ UNCHANGED <<acentries, mapAddressBook, mapAccountKey, nKeysUsed, nKeyPool,
                   mapScripts, nMalleable>>
    /\ UNCHANGED relockVars
    /\ UNCHANGED lockVars
    /\ UNCHANGED stakeVars
    /\ UNCHANGED auxVars

\* sendtoaddress <address> <amount> (rpcwallet.cpp:317-356)
sendtoaddressCode(addr, nAmount, outcome) ==
    IF ~IsValid(addr) THEN "RPC_INVALID_ADDRESS_OR_KEY"
    ELSE IF AmountFromValueThrows(nAmount) THEN "RPC_TYPE_ERROR"
    ELSE IF nAmount < nMinimumInputValue THEN "-101"
    ELSE IF fLocked THEN "RPC_WALLET_UNLOCK_NEEDED"
    ELSE IF outcome # "created" THEN "RPC_WALLET_ERROR"
    ELSE "ok"

sendtoaddress(addr, nAmount, outcome) ==
    LET code == sendtoaddressCode(addr, nAmount, outcome) IN
    /\ rpc' = Call("sendtoaddress", code, FALSE)
    /\ IF code = "ok"
       THEN AddToWallet(WalletTx("", nAmount, 0, 0, 0, 0, TRUE))
       ELSE UNCHANGED <<mapWallet, nOrderPosNext>>
    /\ SendFrame
    /\ HistAfterOther

\* mergecoins <amount> <minvalue> <outputvalue> (rpcwallet.cpp:271-315); a
\* merge that finds nothing to merge returns null
mergecoinsCode(nAmount, nMinValue, nOutputValue) ==
    IF fLocked THEN "RPC_WALLET_UNLOCK_NEEDED"
    ELSE IF AmountFromValueThrows(nAmount) \/ AmountFromValueThrows(nMinValue)
            \/ AmountFromValueThrows(nOutputValue) THEN "RPC_TYPE_ERROR"
    ELSE IF nAmount < nMinimumInputValue THEN "-101"
    ELSE IF nMinValue < nMinimumInputValue THEN "-101"
    ELSE IF nOutputValue < nMinimumInputValue THEN "-101"
    ELSE IF nOutputValue < nMinValue THEN "-101"
    ELSE "ok"

mergecoins(nAmount, nMinValue, nOutputValue, outcome) ==
    LET code == mergecoinsCode(nAmount, nMinValue, nOutputValue) IN
    /\ rpc' = Call("mergecoins", code, FALSE)
    /\ IF code = "ok" /\ outcome = "created"
       THEN AddToWallet(WalletTx("", nOutputValue, 0, 1, nOutputValue, 0, TRUE))
       ELSE UNCHANGED <<mapWallet, nOrderPosNext>>
    /\ SendFrame
    /\ HistAfterOther

\* sendfrom <fromaccount> <address> <amount> [minconf] (rpcwallet.cpp:694-744)
\* sendfrom without the test of lines 733-736
sendfromCodeNoFundsTest(strAccount, addr, nAmount, nMinDepth, outcome) ==
    IF AccountFromValueThrows(strAccount) THEN "RPC_WALLET_INVALID_ACCOUNT_NAME"
    ELSE IF ~IsValid(addr) THEN "RPC_INVALID_ADDRESS_OR_KEY"
    ELSE IF AmountFromValueThrows(nAmount) THEN "RPC_TYPE_ERROR"
    ELSE IF nAmount < nMinimumInputValue THEN "-101"
    ELSE IF EnsureWalletIsUnlocked # "ok" THEN EnsureWalletIsUnlocked
    ELSE IF outcome # "created" THEN "RPC_WALLET_ERROR"
    ELSE "ok"

sendfromCode(strAccount, addr, nAmount, nMinDepth, outcome) ==
    IF AccountFromValueThrows(strAccount) THEN "RPC_WALLET_INVALID_ACCOUNT_NAME"
    ELSE IF ~IsValid(addr) THEN "RPC_INVALID_ADDRESS_OR_KEY"
    ELSE IF AmountFromValueThrows(nAmount) THEN "RPC_TYPE_ERROR"
    ELSE IF nAmount < nMinimumInputValue THEN "-101"
    ELSE IF EnsureWalletIsUnlocked # "ok" THEN EnsureWalletIsUnlocked
    ELSE IF nAmount > GetAccountBalance(strAccount, nMinDepth, FilterSpendable)
         THEN "RPC_WALLET_INSUFFICIENT_FUNDS"
    ELSE IF outcome # "created" THEN "RPC_WALLET_ERROR"
    ELSE "ok"

sendfrom(strAccount, addr, nAmount, nMinDepth, outcome) ==
    LET code == sendfromCode(strAccount, addr, nAmount, nMinDepth, outcome) IN
    /\ rpc' = CallSend("sendfrom", code, strAccount = Wildcard,
                       [typed |-> TRUE, cleanDup |-> FALSE,
                        valid |-> /\ strAccount # Wildcard
                                  /\ IsValid(addr)
                                  /\ nAmount >= nMinimumInputValue,
                        over |-> nAmount > GetAccountBalance(strAccount, nMinDepth,
                                                             FilterSpendable)])
    /\ IF code = "ok"
       THEN AddToWallet(WalletTx(strAccount, nAmount, 0, 0, 0, 0, TRUE))
       ELSE UNCHANGED <<mapWallet, nOrderPosNext>>
    /\ SendFrame
    /\ HistAfterOther

\* the recipients of a sendmany call, as the history describes them
Acceptable(entry) == IsValid(entry[1]) /\ entry[2] >= nMinimumInputValue

Repeats(sendTo, k) ==
    /\ ~IsPair(sendTo[k][1])
    /\ \E j \in 1..(k - 1) : sendTo[j][1] = sendTo[k][1]

CleanDuplicate(sendTo) ==
    \E k \in 1..Len(sendTo) :
        /\ IsValid(sendTo[k][1])
        /\ Repeats(sendTo, k)
        /\ \A j \in 1..(k - 1) : Acceptable(sendTo[j]) /\ ~Repeats(sendTo, j)

RecipientsAccepted(sendTo) ==
    \A k \in 1..Len(sendTo) : Acceptable(sendTo[k]) /\ ~Repeats(sendTo, k)

\* sendmany: the loop over the recipients (rpcwallet.cpp:770-793), from
\* recipient k on with the addresses in seen already met; sendTo is the
\* JSON object as the sequence of its <<address, amount>> members.
\* the loop without the test of lines 776-781
RECURSIVE SendManyScanNoDuplicateTest(_, _, _)
SendManyScanNoDuplicateTest(sendTo, k, seen) ==
    IF k > Len(sendTo) THEN "ok"
    ELSE LET addr == sendTo[k][1]
             nAmount == sendTo[k][2]
         IN IF ~IsValid(addr) THEN "RPC_INVALID_ADDRESS_OR_KEY"
            ELSE IF AmountFromValueThrows(nAmount) THEN "RPC_TYPE_ERROR"
            ELSE IF nAmount < nMinimumInputValue THEN "-101"
            ELSE SendManyScanNoDuplicateTest(sendTo, k + 1, seen)

RECURSIVE SendManyScan(_, _, _)
SendManyScan(sendTo, k, seen) ==
    IF k > Len(sendTo) THEN "ok"
    ELSE LET addr == sendTo[k][1]
             nAmount == sendTo[k][2]
         IN IF ~IsValid(addr) THEN "RPC_INVALID_ADDRESS_OR_KEY"
            ELSE IF ~IsPair(addr) /\ addr \in seen THEN "RPC_INVALID_PARAMETER"
            ELSE IF AmountFromValueThrows(nAmount) THEN "RPC_TYPE_ERROR"
            ELSE IF nAmount < nMinimumInputValue THEN "-101"
            ELSE SendManyScan(sendTo, k + 1,
                              IF IsPair(addr) THEN seen ELSE seen \cup {addr})

\* totalAmount (line 790)
TotalAmount(sendTo) == SumSeq([k \in 1..Len(sendTo) |-> sendTo[k][2]], Len(sendTo))

\* sendmany <fromaccount> {address:amount,...} [minconf] (rpcwallet.cpp:747-817);
\* outcome "nofunds" and "failed" are the two ways CreateTransaction fails
\* (lines 806-812), "nocommit" is CommitTransaction failing
sendmanyCode(strAccount, sendTo, nMinDepth, outcome) ==
    IF AccountFromValueThrows(strAccount) THEN "RPC_WALLET_INVALID_ACCOUNT_NAME"
    ELSE IF SendManyScan(sendTo, 1, {}) # "ok" THEN SendManyScan(sendTo, 1, {})
    ELSE IF EnsureWalletIsUnlocked # "ok" THEN EnsureWalletIsUnlocked
    ELSE IF TotalAmount(sendTo) > GetAccountBalance(strAccount, nMinDepth, FilterSpendable)
         THEN "RPC_WALLET_INSUFFICIENT_FUNDS"
    ELSE IF outcome = "nofunds" THEN "RPC_WALLET_INSUFFICIENT_FUNDS"
    ELSE IF outcome # "created" THEN "RPC_WALLET_ERROR"
    ELSE "ok"

sendmany(strAccount, sendTo, nMinDepth, outcome) ==
    LET code == sendmanyCode(strAccount, sendTo, nMinDepth, outcome) IN
    /\ rpc' = CallSend("sendmany", code, strAccount = Wildcard,
                       [typed |-> TRUE, cleanDup |-> CleanDuplicate(sendTo),
                        valid |-> strAccount # Wildcard /\ RecipientsAccepted(sendTo),
                        over |-> TotalAmount(sendTo) >
                                     GetAccountBalance(strAccount, nMinDepth,
                                                       FilterSpendable)])
    /\ IF code = "ok"
       THEN AddToWallet(WalletTx(strAccount, TotalAmount(sendTo), 0, 0, 0, 0, TRUE))
       ELSE UNCHANGED <<mapWallet, nOrderPosNext>>
    /\ SendFrame
    /\ HistAfterOther

(***************************************************************************)
(* Keys and the address book.  The key pool and the address book live in   *)
(* CWallet, outside this file; the handlers below work on them through     *)
(* TopUpKeyPool, GetKeyFromPool and SetAddressBookName.  A handler that    *)
(* throws half way leaves behind what it had written until then.           *)
(***************************************************************************)
KeyState ==
    [book |-> mapAddressBook, key |-> mapAccountKey, used |-> nKeysUsed, pool |-> nKeyPool]

StoreKeyState(w) ==
    /\ w.used <= MaxKeys
    /\ mapAddressBook' = w.book
    /\ mapAccountKey' = w.key
    /\ nKeysUsed' = w.used
    /\ nKeyPool' = w.pool

\* CWallet::TopUpKeyPool, on an unlocked wallet
TopUpKeyPool(pool) == IF pool < KeyPoolTarget THEN KeyPoolTarget ELSE pool

\* CWallet::GetKeyFromPool(key, false): tops the pool up when the wallet is
\* unlocked and takes the oldest key; fails on an empty pool
GetKeyFromPool(w) ==
    LET pool == IF fLocked THEN w.pool ELSE TopUpKeyPool(w.pool) IN
    IF pool = 0
    THEN [ok |-> FALSE, w |-> w, newKey |-> 0]
    ELSE [ok |-> TRUE, w |-> [w EXCEPT !.used = @ + 1, !.pool = pool - 1],
          newKey |-> w.used + 1]

\* CWallet::SetAddressBookName
SetAddressBookName(w, addr, strAccount) ==
    IF addr \in DOMAIN w.book THEN [w EXCEPT !.book[addr] = strAccount] ELSE w

\* lines 158-166: some wallet transaction pays to the key
KeyUsed(key) ==
    \E k \in 1..Len(mapWallet) : mapWallet[k].nCredit > 0 /\ mapWallet[k].addr = key

\* GetAccountAddress(strAccount, bForceNew) (rpcwallet.cpp:144-180) run on
\* the key state w: the error it throws or "ok", the key state it leaves and
\* the address it returns
GetAccountAddress(w, strAccount, bForceNew) ==
    LET key == w.key[strAccount]
        bKeyUsed == key # 0 /\ KeyUsed(key)
        got == GetKeyFromPool(w)
    IN IF key = 0 \/ bForceNew \/ bKeyUsed
       THEN IF ~got.ok
            THEN [code |-> "RPC_WALLET_KEYPOOL_RAN_OUT", w |-> w, addr |-> 0]
            ELSE [code |-> "ok",
                  w |-> [SetAddressBookName(got.w, got.newKey, strAccount)
                             EXCEPT !.key[strAccount] = got.newKey],
                  addr |-> got.newKey]
       ELSE [code |-> "ok", w |-> w, addr |-> key]

\* what the address calls leave alone
KeyFrame ==
    /\ UNCHANGED <<mapWallet, acentries, nOrderPosNext, mapScripts, nMalleable>>
    /\ UNCHANGED relockVars
    /\ UNCHANGED lockVars
    /\ UNCHANGED stakeVars
    /\ UNCHANGED auxVars
    /\ HistAfterOther

\* what the calls that only read leave alone
ReadFrame ==
    /\ UNCHANGED acctVars
    /\ UNCHANGED relockVars
    /\ UNCHANGED lockVars
    /\ UNCHANGED stakeVars
    /\ UNCHANGED auxVars
    /\ HistAfterOther

\* getnewaddress [account] (rpcwallet.cpp:115-141)
getnewaddress(strAccount) ==
    LET topped == [KeyState EXCEPT !.pool = IF fLocked THEN @ ELSE TopUpKeyPool(@)]
        got == GetKeyFromPool(topped)
        code == IF AccountFromValueThrows(strAccount) THEN "RPC_WALLET_INVALID_ACCOUNT_NAME"
                ELSE IF ~got.ok THEN "RPC_WALLET_KEYPOOL_RAN_OUT"
                ELSE "ok"
        w == IF code = "RPC_WALLET_INVALID_ACCOUNT_NAME" THEN KeyState
             ELSE IF ~got.ok THEN topped
             ELSE SetAddressBookName(got.w, got.newKey, strAccount)
    IN /\ rpc' = Call("getnewaddress", code, strAccount = Wildcard)
       /\ StoreKeyState(w)
       /\ KeyFrame

\* getaccountaddress <account> (rpcwallet.cpp:182-197)
getaccountaddress(strAccount) ==
    LET got == GetAccountAddress(KeyState, strAccount, FALSE)
        code == IF AccountFromValueThrows(strAccount) THEN "RPC_WALLET_INVALID_ACCOUNT_NAME"
                ELSE got.code
        w == IF code = "RPC_WALLET_INVALID_ACCOUNT_NAME" THEN KeyState ELSE got.w
    IN /\ rpc' = Call("getaccountaddress", code, strAccount = Wildcard)
       /\ StoreKeyState(w)
       /\ KeyFrame

\* setaccount <address> <account> (rpcwallet.cpp:201-228)
setaccount(addr, strAccount) ==
    LET inBook == addr \in BookAddrs /\ mapAddressBook[addr] # NoEntry
        strOldAccount == mapAddressBook[addr]
        first == GetAccountAddress(KeyState, strOldAccount, FALSE)
        second == IF first.code = "ok" /\ first.addr = addr
                  THEN GetAccountAddress(first.w, strOldAccount, TRUE)
                  ELSE first
        code == IF ~IsValid(addr) THEN "RPC_INVALID_ADDRESS_OR_KEY"
                ELSE IF AccountFromValueThrows(strAccount)
                     THEN "RPC_WALLET_INVALID_ACCOUNT_NAME"
                ELSE IF inBook THEN second.code
                ELSE "ok"
        w == IF code \in {"RPC_INVALID_ADDRESS_OR_KEY", "RPC_WALLET_INVALID_ACCOUNT_NAME"}
             THEN KeyState
             ELSE IF ~inBook THEN SetAddressBookName(KeyState, addr, strAccount)
             ELSE IF code # "ok" THEN second.w
             ELSE SetAddressBookName(second.w, addr, strAccount)
    IN /\ rpc' = CallSend("setaccount", code, strAccount = Wildcard,
                          [NoArgs EXCEPT !.valid = IsValid(addr)])
       /\ StoreKeyState(w)
       /\ KeyFrame

\* getaddressesbyaccount <account> (rpcwallet.cpp:250-269)
getaddressesbyaccount(strAccount) ==
    LET code == IF AccountFromValueThrows(strAccount) THEN "RPC_WALLET_INVALID_ACCOUNT_NAME"
                ELSE "ok"
    IN /\ rpc' = Call("getaddressesbyaccount", code, strAccount = Wildcard)
       /\ ReadFrame

\* getreceivedbyaccount <account> [minconf] (rpcwallet.cpp:511-546); minconf
\* is converted (line 521) before the account name is looked at (line 524)
getreceivedbyaccount(strAccount, nMinDepth, typed) ==
    LET code == IF ~typed THEN "runtime_error"
                ELSE IF AccountFromValueThrows(strAccount)
                     THEN "RPC_WALLET_INVALID_ACCOUNT_NAME"
                ELSE "ok"
    IN /\ rpc' = CallSend("getreceivedbyaccount", code, strAccount = Wildcard,
                          [NoArgs EXCEPT !.typed = typed])
       /\ ReadFrame

\* largest number of keys of a multisignature address (line 843)
MaxMultisigKeys == 16

\* addmultisigaddress <nrequired> <keys> [account] (rpcwallet.cpp:819-895):
\* nKeys keys are given; keys tells whether they all are public keys the
\* wallet can resolve ("ok"), or not ("bad"), or make a script over the size
\* limit ("toolong"); j is the script they make
addmultisigaddressCode(nRequired, nKeys, keys, strAccount, typed) ==
    IF ~typed THEN "runtime_error"
    ELSE IF AccountFromValueThrows(strAccount) THEN "RPC_WALLET_INVALID_ACCOUNT_NAME"
    ELSE IF nRequired < 1 THEN "runtime_error"
    ELSE IF nKeys < nRequired THEN "runtime_error"
    ELSE IF nKeys > MaxMultisigKeys THEN "runtime_error"
    ELSE IF keys # "ok" THEN "runtime_error"
    ELSE "ok"

addmultisigaddress(nRequired, nKeys, keys, j, strAccount, typed) ==
    LET code == addmultisigaddressCode(nRequired, nKeys, keys, strAccount, typed) IN
    /\ rpc' = CallSend("addmultisigaddress", code, strAccount = Wildcard,
                       [NoArgs EXCEPT !.typed = typed])
    /\ mapScripts' = IF code = "ok" THEN mapScripts \cup {j} ELSE mapScripts
    /\ StoreKeyState(IF code = "ok"
                     THEN SetAddressBookName(KeyState, ScriptAddr(j), strAccount)
                     ELSE KeyState)
    /\ UNCHANGED <<mapWallet, acentries, nOrderPosNext, nMalleable>>
    /\ UNCHANGED relockVars
    /\ UNCHANGED lockVars
    /\ UNCHANGED stakeVars
    /\ UNCHANGED auxVars
    /\ HistAfterOther

\* addredeemscript <redeemScript> [account] (rpcwallet.cpp:897-919); hex
\* tells whether the script is a hex string, j is the script
addredeemscript(j, strAccount, hex) ==
    LET code == IF AccountFromValueThrows(strAccount) THEN "RPC_WALLET_INVALID_ACCOUNT_NAME"
                ELSE IF ~hex THEN "RPC_INVALID_PARAMETER"
                ELSE "ok"
    IN /\ rpc' = Call("addredeemscript", code, strAccount = Wildcard)
       /\ mapScripts' = IF code = "ok" THEN mapScripts \cup {j} ELSE mapScripts
       /\ StoreKeyState(IF code = "ok"
                        THEN SetAddressBookName(KeyState, ScriptAddr(j), strAccount)
                        ELSE KeyState)
       /\ UNCHANGED <<mapWallet, acentries, nOrderPosNext, nMalleable>>
       /\ UNCHANGED relockVars
       /\ UNCHANGED lockVars
       /\ UNCHANGED stakeVars
       /\ UNCHANGED auxVars
       /\ HistAfterOther

\* newmalleablekey [account] (rpcwallet.cpp:1920-1950); outcome tells whether
\* the wallet could generate the key
newmalleablekey(strAccount, outcome) ==
    LET code == IF AccountFromValueThrows(strAccount) THEN "RPC_WALLET_INVALID_ACCOUNT_NAME"
                ELSE IF outcome # "created" THEN "runtime_error"
                ELSE "ok"
    IN /\ rpc' = Call("newmalleablekey", code, strAccount = Wildcard)
       /\ code = "ok" => nMalleable < MaxMalleable
       /\ nMalleable' = IF code = "ok" THEN nMalleable + 1 ELSE nMalleable
       /\ StoreKeyState(IF code = "ok"
                        THEN SetAddressBookName(KeyState, MalleableAddr(nMalleable + 1),
                                                strAccount)
                        ELSE KeyState)
       /\ UNCHANGED <<mapWallet, acentries, nOrderPosNext, mapScripts>>
       /\ UNCHANGED relockVars
       /\ UNCHANGED lockVars
       /\ UNCHANGED stakeVars
       /\ UNCHANGED auxVars
       /\ HistAfterOther

(***************************************************************************)
(* The network, as the wallet sees it: a transaction paying one of the     *)
(* wallet's addresses arrives (CWallet::AddToWallet gives it the next      *)
(* order position), and blocks bury the wallet's transactions deeper.      *)
(***************************************************************************)
ReceiveTx(addr, nValue, final) ==
    /\ Len(mapWallet) < MaxTx
    /\ IsMine(addr) # MINE_NO
    /\ mapWallet' = Append(mapWallet, WalletTx("", 0, 0, addr, nValue, 0, final))
    /\ nOrderPosNext' = nOrderPosNext + 1
    /\ rpc' = NoRpc
    /\ UNCHANGED <<acentries, mapAddressBook, mapAccountKey, nKeysUsed, nKeyPool,
                   mapScripts, nMalleable>>
    /\ HistAfterOther
    /\ UNCHANGED relockVars
    /\ UNCHANGED lockVars
    /\ UNCHANGED stakeVars
    /\ UNCHANGED auxVars

\* a block is connected: the transactions of S are mined in it, the ones
\* already in the chain get one block deeper (MaxDepth stands for "or more")
ConnectBlock(S) ==
    /\ S \subseteq {k \in 1..Len(mapWallet) : mapWallet[k].depth = 0}
    /\ mapWallet' = [k \in 1..Len(mapWallet) |->
                        IF mapWallet[k].depth = 0
                        THEN [mapWallet[k] EXCEPT !.depth = IF k \in S THEN 1 ELSE 0]
                        ELSE [mapWallet[k] EXCEPT
                                 !.depth = IF @ < MaxDepth THEN @ + 1 ELSE @]]
    /\ mapWallet' # mapWallet
    /\ rpc' = NoRpc
    /\ UNCHANGED <<acentries, nOrderPosNext, mapAddressBook, mapAccountKey, nKeysUsed,
                   nKeyPool, mapScripts, nMalleable>>
    /\ HistAfterOther
    /\ UNCHANGED relockVars
    /\ UNCHANGED lockVars
    /\ UNCHANGED stakeVars
    /\ UNCHANGED auxVars

(***************************************************************************)
(* The wallet the accounting specifications start from: key 1 has been     *)
(* handed out and is booked under account "A", the watch-only address is   *)
(* booked under "B", nothing has been received yet.                        *)
(***************************************************************************)
(* The stake miner.  ThreadStakeMiner and CheckStake are declared in       *)
(* miner.h (lines 29-36); what they do is taken from the specification:    *)
(* the kernel evaluator (4.3), the block assembler (4.5), the staking loop *)
(* (4.6) and the error policy (7).                                         *)
(***************************************************************************)
\* protocol parameters, in seconds
MaxFutureDrift == 3
StakeGranularity == 2
MaxReorgDepth == 4
nStakeMinAge == 1
nStakeMaxAge == 4
\* the kernel hash is a number below HashSpace
HashSpace == 8
\* COIN * ONE_DAY
CoinDay == 2
\* the proof-of-stake target
PosTarget == 1

\* the outputs the wallet can stake: value, time of the block that holds
\* them, offset of their transaction in that block, index of the output
StakeCoins == {1, 2}
CoinValue(u) == u + 1
CoinBlockTime(u) == 0
CoinOffset(u) == u
CoinVout(u) == 0

NoBlock == [prev |-> 0, input |-> 0, nTime |-> 0]

Min(a, b) == IF a < b THEN a ELSE b
Max(a, b) == IF a > b THEN a ELSE b

\* 4.2: outputs that are spent are left out
Spendable == StakeCoins \ setSpent

\* 4.3 step 1
CoinAgeWeight(u, t) == Min(Max(t - CoinBlockTime(u) - nStakeMinAge, 0), nStakeMaxAge)

\* the stake modifier of the tip
StakeModifier == pindexBest.hash

\* 4.3 steps 2-3: a hash over (stake-modifier, prev-block-time,
\* utxo.block-time, utxo.tx-offset, utxo.vout, t); the same fields give the
\* same hash
KernelHash(u, t) ==
    (3 * StakeModifier + 5 * pindexBest.nTime + 7 * CoinBlockTime(u)
       + 11 * CoinOffset(u) + 13 * CoinVout(u) + 17 * t) % HashSpace

\* 4.3 steps 1 and 4
CheckKernel(u, t) ==
    /\ CoinAgeWeight(u, t) > 0
    /\ KernelHash(u, t) * CoinDay <= PosTarget * CoinValue(u) * CoinAgeWeight(u, t)

\* the upper end of the window when now + MaxFutureDrift is rounded up to
\* the next multiple of the granularity
SlotWindowEndRoundedUp == nAdjustedTime + MaxFutureDrift + StakeGranularity - 1

\* 4.6: t1 = now + MaxFutureDrift
SlotWindowEnd == nAdjustedTime + MaxFutureDrift

\* 4.6: t0 = tip.nTime + 1 bounded below by now - MaxReorgDepth; 4.3: t is
\* not below now - MaxFutureDrift
SlotWindowStart ==
    Max(Max(pindexBest.nTime + 1, nAdjustedTime - MaxReorgDepth),
        nAdjustedTime - MaxFutureDrift)

\* the times of the window that are aligned to the granularity
Slots == {t \in SlotWindowStart..SlotWindowEnd : t % StakeGranularity = 0}

Kernels == {w \in [u : Spendable, t : Slots] : CheckKernel(w.u, w.t)}

\* 4.3 tie-break: the successes with the smallest hash
Winners == {w \in Kernels : \A v \in Kernels : KernelHash(w.u, w.t) <= KernelHash(v.u, v.t)}

\* 4.6: the loop sleeps while the wallet is locked, or encrypted and not
\* unlocked for minting only, or the node is not synced
StakeSleeps == fLocked \/ (fCrypted /\ ~fWalletUnlockMintOnly) \/ ~fSynced

notStake == <<relockVars, acctVars, histVars, lockVars, auxVars>>

\* 4.6, one tick: the loop sleeps, or finds no kernel, or calls the
\* assembler on the winner.  The assembler returns the signed block, which
\* is submitted to chain ingress ("signed"), or fails with an error that is
\* retried on the next tick ("transient"), or fails with an error that halts
\* the worker ("fatal").
StakeTick(outcome) ==
    /\ UNCHANGED notStake
    /\ rpc' = NoRpc
    /\ stakeMiner.pc = "tick"
    /\ UNCHANGED <<nAdjustedTime, pindexBest, nBlocks, setSpent, fSynced>>
    /\ IF StakeSleeps \/ Winners = {} \/ nBlocks >= MaxBlocks
       THEN UNCHANGED <<stakeMiner, setStakeEmitted>>
       ELSE \E w \in Winners :
              CASE outcome = "signed" ->
                     /\ stakeMiner' = [pc |-> "submitted",
                                       cand |-> [prev |-> pindexBest.hash, input |-> w.u,
                                                 nTime |-> w.t]]
                     /\ setStakeEmitted' = setStakeEmitted \cup {<<pindexBest.hash, w.u>>}
                [] outcome = "transient" ->
                     UNCHANGED <<stakeMiner, setStakeEmitted>>
                [] outcome = "fatal" ->
                     /\ stakeMiner' = [pc |-> "halted", cand |-> NoBlock]
                     /\ UNCHANGED setStakeEmitted

\* 4.6: chain ingress answers.  A block built on a block that is no longer
\* the tip is rejected and the loop goes on; a block built on the tip is
\* accepted and becomes the tip, its coinstake spends the winning output; a
\* block built on the tip that is not valid is an invariant violation, which
\* halts the worker (7).
StakeAnswer(valid) ==
    /\ UNCHANGED notStake
    /\ rpc' = NoRpc
    /\ stakeMiner.pc = "submitted"
    /\ UNCHANGED <<nAdjustedTime, fSynced, setStakeEmitted>>
    /\ IF stakeMiner.cand.prev # pindexBest.hash
       THEN /\ stakeMiner' = [pc |-> "tick", cand |-> NoBlock]
            /\ UNCHANGED <<pindexBest, nBlocks, setSpent>>
       ELSE IF valid
       THEN /\ pindexBest' = [hash |-> nBlocks + 1, nTime |-> stakeMiner.cand.nTime]
            /\ nBlocks' = nBlocks + 1
            /\ setSpent' = setSpent \cup {stakeMiner.cand.input}
            /\ stakeMiner' = [pc |-> "tick", cand |-> NoBlock]
       ELSE /\ stakeMiner' = [pc |-> "halted", cand |-> NoBlock]
            /\ UNCHANGED <<pindexBest, nBlocks, setSpent>>

\* chain ingress connects a block of another node; the blocks it
\* disconnects give back the outputs R that their coinstakes spent
NewTip(nTime, R) ==
    /\ UNCHANGED notStake
    /\ rpc' = NoRpc
    /\ nBlocks < MaxBlocks
    /\ pindexBest' = [hash |-> nBlocks + 1, nTime |-> nTime]
    /\ nBlocks' = nBlocks + 1
    /\ setSpent' = setSpent \ R
    /\ UNCHANGED <<nAdjustedTime, fSynced, stakeMiner, setStakeEmitted>>

\* a second passes
AdvanceTime ==
    /\ UNCHANGED notStake
    /\ rpc' = NoRpc
    /\ nAdjustedTime < MaxStakeTime
    /\ nAdjustedTime' = nAdjustedTime + 1
    /\ UNCHANGED <<pindexBest, nBlocks, setSpent, fSynced, stakeMiner, setStakeEmitted>>

\* the node catches up with the network or falls behind
SetSynced(synced) ==
    /\ UNCHANGED notStake
    /\ rpc' = NoRpc
    /\ fSynced' = synced
    /\ UNCHANGED <<nAdjustedTime, pindexBest, nBlocks, setSpent, stakeMiner,
                   setStakeEmitted>>

(***************************************************************************)
(* listtransactions [account] [count=10] [from=0]                          *)
(* (rpcwallet.cpp:1058-1228).  A row of the result keeps the account, the  *)
(* category, the address and the order position of the wallet item it was  *)
(* made from.  In SpecList every wallet transaction carries its order      *)
(* position in a field nOrderPos.                                          *)
(***************************************************************************)
\* the largest value of the C++ type int, which get_int() returns
IntMax == 2147483647

Row(account, category, addr, pos) ==
    [account |-> account, category |-> category, address |-> addr, nOrderPos |-> pos]

\* std::reverse
Reverse(seq) == [k \in 1..Len(seq) |-> seq[Len(seq) + 1 - k]]

\* ListTransactions(wtx, strAccount, nMinDepth, fLong, ret, filter): the rows
\* it appends, the sent ones before the received ones
ListTransactions(wtx, strAccount, nMinDepth, filter) ==
    LET fAllAccounts == strAccount = Wildcard
        listSent == wtx.nSent > 0
        listReceived == wtx.nCredit > 0 /\ IsMine(wtx.addr) \in filter
        account == IF wtx.addr \in BookAddrs /\ mapAddressBook[wtx.addr] # NoEntry
                   THEN mapAddressBook[wtx.addr] ELSE ""
        sent == IF /\ listSent \/ wtx.nFee # 0
                   /\ fAllAccounts \/ strAccount = wtx.strFromAccount
                   /\ listSent
                THEN <<Row(wtx.strFromAccount, "send", wtx.addr, wtx.nOrderPos)>>
                ELSE <<>>
        received == IF /\ listReceived
                       /\ wtx.depth >= nMinDepth
                       /\ fAllAccounts \/ account = strAccount
                    THEN <<Row(account, "receive", wtx.addr, wtx.nOrderPos)>>
                    ELSE <<>>
    IN sent \o received

\* AcentryToJSON(acentry, strAccount, ret): the rows it appends
AcentryToJSON(acentry, strAccount) ==
    IF strAccount = Wildcard \/ acentry.strAccount = strAccount
    THEN <<Row(acentry.strAccount, "move", InvalidAddr, acentry.nOrderPos)>>
    ELSE <<>>

RECURSIVE SortByPos(_)
\* the items of a set in the order of their order positions
SortByPos(items) ==
    IF items = {} THEN <<>>
    ELSE LET first == CHOOSE x \in items : \A y \in items : x.nOrderPos <= y.nOrderPos
         IN <<first>> \o SortByPos(items \ {first})

\* CWallet::OrderedTxItems(acentries, strAccount): every wallet transaction
\* and the accounting entries of the account, merged by order position;
\* pwtx and pacentry are indices, 0 for the null pointer
OrderedTxItems(strAccount) ==
    SortByPos({[nOrderPos |-> mapWallet[k].nOrderPos, pwtx |-> k, pacentry |-> 0] :
                    k \in 1..Len(mapWallet)}
              \cup {[nOrderPos |-> acentries[k].nOrderPos, pwtx |-> 0, pacentry |-> k] :
                    k \in {j \in 1..Len(acentries) :
                              strAccount = Wildcard \/ acentries[j].strAccount = strAccount}})

\* the rows one item of the ordered stream gives
ItemRows(item, strAccount, filter) ==
    (IF item.pwtx # 0
     THEN ListTransactions(mapWallet[item.pwtx], strAccount, 0, filter) ELSE <<>>)
    \o (IF item.pacentry # 0
        THEN AcentryToJSON(acentries[item.pacentry], strAccount) ELSE <<>>)

RECURSIVE ListLoop(_, _, _, _, _, _)
\* the loop of lines 1200-1210 from item k of txOrdered downwards: it stops
\* after the item that brings ret to at least nLimit rows
ListLoop(txOrdered, k, rows, nLimit, strAccount, filter) ==
    IF k = 0 THEN rows
    ELSE LET more == rows \o ItemRows(txOrdered[k], strAccount, filter) IN
         IF Len(more) >= nLimit THEN more
         ELSE ListLoop(txOrdered, k - 1, more, nLimit, strAccount, filter)

\* lines 1213-1225, for nFrom + nCount within int
ListWindow(rows, nFromArg, nCountArg) ==
    LET nFrom == IF nFromArg > Len(rows) THEN Len(rows) ELSE nFromArg
        nCount == IF nFrom + nCountArg > Len(rows) THEN Len(rows) - nFrom ELSE nCountArg
    IN Reverse(SubSeq(rows, nFrom + 1, nFrom + nCount))

\* nCount + nFrom as a build with wrapping int arithmetic computes it when
\* the sum exceeds IntMax
WrappedSum(nCount, nFrom) == ((nCount - IntMax) + (nFrom - IntMax)) - 2

\* the process died
CrashRow == Row(NoEntry, "crash", InvalidAddr, -1)

listtransactionsCode(nParams, nCount, nFrom) ==
    IF nParams > 3 THEN "runtime_error"
    ELSE IF nCount < 0 THEN "RPC_INVALID_PARAMETER"
    ELSE IF nFrom < 0 THEN "RPC_INVALID_PARAMETER"
    ELSE "ok"

\* nParams is params.size(); a parameter that is not given has its default
\* (and is passed here as "*", 0 or FALSE).
\* When nCount + nFrom exceeds IntMax the behaviour of lines 1209-1223 is
\* undefined: the call is taken to crash or to return any run of the rows
\* that the loop collected with the wrapped sum as its limit.
listtransactions(strAccountArg, nCountArg, nFromArg, nParams, fWatchonly) ==
    LET strAccount == IF nParams > 0 THEN strAccountArg ELSE Wildcard
        nCount == IF nParams > 1 THEN nCountArg ELSE 10
        nFrom == IF nParams > 2 THEN nFromArg ELSE 0
        filter == IF nParams > 3 /\ fWatchonly THEN FilterAll ELSE FilterSpendable
        code == listtransactionsCode(nParams, nCount, nFrom)
        txOrdered == OrderedTxItems(strAccount)
        fOverflow == nCount > IntMax - nFrom
        nLimit == IF fOverflow THEN WrappedSum(nCount, nFrom) ELSE nCount + nFrom
        rows == ListLoop(txOrdered, Len(txOrdered), <<>>, nLimit, strAccount, filter)
    IN
    /\ nParams < 1 => strAccountArg = Wildcard
    /\ nParams < 2 => nCountArg = 0
    /\ nParams < 3 => nFromArg = 0
    /\ nParams < 4 => ~fWatchonly
    /\ lastArgs' = [name |-> "listtransactions", strAccount |-> strAccount,
                    nCount |-> nCount, nFrom |-> nFrom, nParams |-> nParams,
                    fWatchonly |-> fWatchonly]
    /\ IF code # "ok"
       THEN /\ rpc' = Call("listtransactions", code, strAccount = Wildcard)
            /\ ret' = NoRet
       ELSE IF ~fOverflow
       THEN /\ rpc' = Call("listtransactions", "ok", strAccount = Wildcard)
            /\ ret' = ListWindow(rows, nFrom, nCount)
       ELSE \/ /\ rpc' = Call("listtransactions", "crash", strAccount = Wildcard)
               /\ ret' = <<CrashRow>>
            \/ /\ rpc' = Call("listtransactions", "ok", strAccount = Wildcard)
               /\ \E a \in 1..(Len(rows) + 1), b \in 0..Len(rows) :
                      ret' = Reverse(SubSeq(rows, a, b))
    /\ UNCHANGED <<relockVars, acctVars, histVars, lockVars, stakeVars, fShutdown,
                   nBestHeight, nReserveBalance, mapArgs, stun, kernel>>

(***************************************************************************)
(* listsinceblock [blockhash] [target-confirmations]                       *)
(* (rpcwallet.cpp:1287-1353).  The main chain is the blocks of height      *)
(* 0 .. nBestHeight; depth is the exact depth of a wallet transaction in   *)
(* it.  The hash of a block is a number other than 0, the null hash.       *)
(***************************************************************************)
\* the hash of the main-chain block of a height
BlockHash(nHeight) == nHeight + 1

\* CBlockLocator(blockId).GetBlockIndex() for the hash of a block of the
\* main chain: the height of that block
GetBlockIndex(blockId) == blockId - 1

\* line 1318 with <= for <
listsinceblockListedOrAtDepth(wtx, depth) == depth = -1 \/ wtx.depth <= depth

\* line 1318: is the transaction listed
listsinceblockListed(wtx, depth) == depth = -1 \/ wtx.depth < depth

RECURSIVE SinceRows(_, _, _)
\* the loop of lines 1314-1320 over the first k wallet transactions
SinceRows(k, depth, filter) ==
    IF k = 0 THEN <<>>
    ELSE SinceRows(k - 1, depth, filter)
         \o (IF listsinceblockListed(mapWallet[k], depth)
             THEN ListTransactions(mapWallet[k], Wildcard, 0, filter) ELSE <<>>)

RECURSIVE WalkBack(_, _)
\* the loop of lines 1333-1335 from the block of height nHeight (-1 is the
\* null pointer before the first block)
WalkBack(nHeight, target_height) ==
    IF nHeight >= 0 /\ nHeight > target_height
    THEN WalkBack(nHeight - 1, target_height) ELSE nHeight

\* lines 1324-1338
LastBlock(target_confirms) ==
    IF target_confirms = 1 THEN BlockHash(nBestHeight)
    ELSE LET block == WalkBack(nBestHeight, nBestHeight + 1 - target_confirms) IN
         IF block >= 0 THEN BlockHash(block) ELSE 0

\* nParams is params.size(); blockId is the hash of a block of the main
\* chain.  The call is taken when the reply of the one before it is sent.
listsinceblock(blockId, target_confirmsArg, nParams, fWatchonly) ==
    LET target_confirms == IF nParams > 1 THEN target_confirmsArg ELSE 1
        filter == IF nParams > 2 /\ fWatchonly THEN FilterAll ELSE FilterSpendable
        depth == IF nParams > 0 THEN 1 + nBestHeight - GetBlockIndex(blockId) ELSE -1
        code == IF nParams > 1 /\ target_confirms < 1 THEN "RPC_INVALID_PARAMETER" ELSE "ok"
    IN
    /\ rpc = NoRpc
    /\ nParams < 1 => blockId = BlockHash(0)
    /\ nParams < 2 => target_confirmsArg = 1
    /\ nParams < 3 => ~fWatchonly
    /\ rpc' = Call("listsinceblock", code, FALSE)
    /\ lastArgs' = [name |-> "listsinceblock", blockId |-> blockId,
                    target_confirms |-> target_confirms, nParams |-> nParams,
                    fWatchonly |-> fWatchonly]
    /\ ret' = IF code = "ok"
              THEN [transactions |-> SinceRows(Len(mapWallet), depth, filter),
                    lastblock |-> LastBlock(target_confirms)]
              ELSE NoRet
    /\ UNCHANGED <<relockVars, acctVars, histVars, lockVars, stakeVars, fShutdown,
                   nBestHeight, nReserveBalance, mapArgs, stun, kernel>>

\* a transaction enters the wallet, not yet in a block
SinceAddTx(wtx) ==
    /\ Len(mapWallet) < MaxTx
    /\ mapWallet' = Append(mapWallet,
                           [strFromAccount |-> wtx.strFromAccount, nSent |-> wtx.nSent,
                            nFee |-> wtx.nFee, addr |-> wtx.addr, nCredit |-> wtx.nCredit,
                            depth |-> 0, fFinal |-> wtx.fFinal,
                            nOrderPos |-> nOrderPosNext])
    /\ nOrderPosNext' = nOrderPosNext + 1
    /\ rpc' = NoRpc
    /\ UNCHANGED <<acentries, mapAddressBook, mapAccountKey, nKeysUsed, nKeyPool,
                   mapScripts, nMalleable>>
    /\ ret' = NoRet
    /\ lastArgs' = NoCall
    /\ UNCHANGED <<relockVars, histVars, lockVars, stakeVars, fShutdown, nBestHeight,
                   nReserveBalance, mapArgs, stun, kernel>>

\* a block is connected to the main chain: the unconfirmed transactions of S
\* are in it, the confirmed ones get one block deeper
SinceConnectBlock(S) ==
    /\ nBestHeight < MaxHeight
    /\ S \subseteq {k \in 1..Len(mapWallet) : mapWallet[k].depth = 0}
    /\ nBestHeight' = nBestHeight + 1
    /\ mapWallet' = [k \in 1..Len(mapWallet) |->
                        [mapWallet[k] EXCEPT
                            !.depth = IF @ = 0 THEN (IF k \in S THEN 1 ELSE 0) ELSE @ + 1]]
    /\ rpc' = NoRpc
    /\ UNCHANGED <<acentries, nOrderPosNext, mapAddressBook, mapAccountKey, nKeysUsed,
                   nKeyPool, mapScripts, nMalleable>>
    /\ ret' = NoRet
    /\ lastArgs' = NoCall
    /\ UNCHANGED <<relockVars, histVars, lockVars, stakeVars, fShutdown, nReserveBalance,
                   mapArgs, stun, kernel>>

\* the reply of a call is sent to the client
SendReply ==
    /\ rpc # NoRpc
    /\ rpc' = NoRpc
    /\ ret' = NoRet
    /\ lastArgs' = NoCall
    /\ UNCHANGED <<relockVars, acctVars, histVars, lockVars, stakeVars, fShutdown,
                   nBestHeight, nReserveBalance, mapArgs, stun, kernel>>

(***************************************************************************)
(* listaccounts [minconf=1] (rpcwallet.cpp:1230-1285).  CWalletTx::GetAmounts *)
(* is wallet code outside this file: it gives what the transaction sent    *)
(* and paid in fees, with the account it was sent from, and the credits    *)
(* that the filter lets through.                                           *)
(***************************************************************************)
listaccountsCode(nParams) == IF nParams > 1 THEN "runtime_error" ELSE "ok"

\* lines 1248-1251, and the entries of mapAccountBalances that the loops of
\* lines 1253-1276 create
listaccountsNames(nMinDepth) ==
    {mapAddressBook[a] : a \in {b \in BookAddrs : /\ mapAddressBook[b] # NoEntry
                                                   /\ IsMine(b) # MINE_NO}}
    \cup {mapWallet[k].strFromAccount : k \in 1..Len(mapWallet)}
    \cup {"" : k \in {j \in 1..Len(mapWallet) : mapWallet[j].depth >= nMinDepth}}
    \cup {acentries[k].strAccount : k \in 1..Len(acentries)}

\* lines 1253-1271: what one wallet transaction adds to the balance of an
\* account
listaccountsTally(wtx, strAccount, nMinDepth, filter) ==
    LET fReceived == wtx.nCredit > 0 /\ IsMine(wtx.addr) \in filter
        booked == IF wtx.addr \in BookAddrs THEN mapAddressBook[wtx.addr] ELSE NoEntry
        forMe == IF booked # NoEntry THEN booked = strAccount ELSE strAccount = ""
    IN  (IF strAccount = wtx.strFromAccount THEN 0 - wtx.nFee - wtx.nSent ELSE 0)
        + (IF wtx.depth >= nMinDepth /\ fReceived /\ forMe THEN wtx.nCredit ELSE 0)

\* the balance listaccounts reports for an account
listaccountsBalance(strAccount, nMinDepth, filter) ==
    SumSeq([k \in 1..Len(mapWallet) |->
                listaccountsTally(mapWallet[k], strAccount, nMinDepth, filter)],
           Len(mapWallet))
    + GetAccountCreditDebit(strAccount)

\* nParams is params.size(); nMinDepthArg is params[0] when it is given
listaccounts(nParams, nMinDepthArg) ==
    LET code == listaccountsCode(nParams)
        nMinDepth == IF nParams > 0 THEN nMinDepthArg ELSE 1
    IN
    /\ rpc' = Call("listaccounts", code, FALSE)
    /\ IF code = "ok"
       THEN /\ ret' = [a \in listaccountsNames(nMinDepth) |->
                          listaccountsBalance(a, nMinDepth, FilterSpendable)]
            /\ lastArgs' = [name |-> "listaccounts", nMinDepth |-> nMinDepth]
       ELSE UNCHANGED <<ret, lastArgs>>
    /\ UNCHANGED <<relockVars, acctVars, histVars, lockVars, stakeVars, fShutdown,
                   nBestHeight, nReserveBalance, mapArgs, stun, kernel>>

(***************************************************************************)
(* reservebalance [<reserve> [amount]] (rpcwallet.cpp:1771-1808).  Amounts *)
(* here are whole multiples of a quarter of a cent.                        *)
(***************************************************************************)
CENT == 4
COIN == 100 * CENT

\* FormatMoney and ParseMoney: the text of an amount is its number of whole
\* coins and the fraction of a coin after the point
FormatMoney(n) == [whole |-> n \div COIN, frac |-> n % COIN]
ParseMoney(str) == str.whole * COIN + str.frac

\* line 1790 without the rounding
reservebalanceNotRounded(nAmount) == nAmount

\* line 1790: round to cent
reservebalanceRounded(nAmount) == (nAmount \div CENT) * CENT

\* the error the call throws, or "ok"; nParams is params.size()
reservebalanceCode(nParams, fReserve, nAmount) ==
    IF nParams > 2 THEN "runtime_error"
    ELSE IF nParams = 0 THEN "ok"
    ELSE IF fReserve
    THEN IF nParams = 1 THEN "runtime_error"
         ELSE IF AmountFromValueThrows(nAmount) THEN "RPC_TYPE_ERROR"
         ELSE IF reservebalanceRounded(nAmount) < 0 THEN "runtime_error"
         ELSE "ok"
    ELSE IF nParams > 1 THEN "runtime_error"
    ELSE "ok"

reservebalance(nParams, fReserve, nAmount) ==
    LET code == reservebalanceCode(nParams, fReserve, nAmount) IN
    /\ nParams < 1 => ~fReserve
    /\ nParams < 2 => nAmount = 0
    /\ rpc' = Call("reservebalance", code, FALSE)
    /\ lastArgs' = [name |-> "reservebalance", nParams |-> nParams,
                    fReserve |-> fReserve, nAmount |-> nAmount]
    /\ IF code = "ok"
       THEN /\ mapArgs' = IF nParams = 0 THEN mapArgs
                          ELSE IF fReserve THEN FormatMoney(reservebalanceRounded(nAmount))
                          ELSE FormatMoney(0)
            /\ nReserveBalance' = IF mapArgs' # NoArg THEN ParseMoney(mapArgs')
                                  ELSE nReserveBalance
            /\ ret' = [reserve |-> nReserveBalance' > 0, amount |-> nReserveBalance']
       ELSE /\ ret' = NoRet
            /\ UNCHANGED <<mapArgs, nReserveBalance>>
    /\ UNCHANGED <<relockVars, acctVars, histVars, lockVars, stakeVars, fShutdown,
                   nBestHeight, stun, kernel>>

(***************************************************************************)
(* GetExternalIPbySTUN (stun.cpp:998-1173).  A 64-bit number is the        *)
(* sequence of its eight bytes, the lowest first.  A server is its index   *)
(* in StunSrvList.  A packet is its length in bytes, the length its header *)
(* advertises and its attributes in the order they lie in it; who sent it  *)
(* and the address the sender meant to report are kept for the record.     *)
(***************************************************************************)
StunSrvListQty == 893
\* sizeof(struct stun_header) and sizeof(struct stun_attr)
StunHeaderSize == 20
StunAttrSize == 4
STUN_MAPPED_ADDRESS == 1

NoAddr == [addr |-> 0, port |-> 0]
StunIdle ==
    [pc |-> "idle", rnd |-> <<0, 0, 0, 0, 0, 0, 0, 0>>, pos |-> 0, step |-> 0,
     attempt |-> 0, rc |-> 0, srv |-> -1, mapped |-> NoAddr, retval |-> 0,
     nProbes |-> 0, from |-> "none", reported |-> NoAddr, qty |-> StunSrvListQty]

\* rnd = rnd >> 8
ShiftRndNoFill(rnd) == [k \in 1..8 |-> IF k < 8 THEN rnd[k + 1] ELSE 0]

\* rnd = (rnd >> 8) | 0xff00000000000000
ShiftRnd(rnd) == [k \in 1..8 |-> IF k < 8 THEN rnd[k + 1] ELSE 255]

RECURSIVE ModBytes(_, _, _)
\* the number made of the first k bytes of rnd, modulo q
ModBytes(rnd, k, q) ==
    IF k = 0 THEN 0
    ELSE LET high == ModBytes([j \in 1..(k - 1) |-> rnd[j + 1]], k - 1, q) IN
         (high * 256 + rnd[1]) % q

\* the loop of line 1164 runs while attempt is below this
StunAttemptLimitLonger == stun.qty * 2 + 2

StunAttemptLimit == stun.qty * 2

\* stun_get_mapped (lines 1062-1072): the address after the attribute
stun_get_mapped(attr, sa) ==
    IF attr.attr # STUN_MAPPED_ADDRESS \/ attr.len # 8 THEN sa
    ELSE [addr |-> attr.addr, port |-> attr.port]

RECURSIVE StunAttrLoop(_, _, _, _, _)
\* the loop of lines 1019-1042 from attribute k with len bytes left
StunAttrLoop(attrs, k, len, nRet, sa) ==
    IF len = 0 THEN [ret |-> nRet, mapped |-> sa]
    ELSE IF len < StunAttrSize THEN [ret |-> -21, mapped |-> sa]
    ELSE LET x == attrs[k].len + StunAttrSize IN
         IF x > len THEN [ret |-> -22, mapped |-> sa]
         ELSE StunAttrLoop(attrs, k + 1, len - x, nRet, stun_get_mapped(attrs[k], sa))

\* stun_handle_packet (lines 998-1056) with stun_get_mapped as its callback
stun_handle_packet(pkt, sa) ==
    IF pkt.len < StunHeaderSize THEN [ret |-> -20, mapped |-> sa]
    ELSE LET rest == pkt.len - StunHeaderSize
             len == IF pkt.msglen < rest THEN pkt.msglen ELSE rest
         IN StunAttrLoop(pkt.attrs, 1, len, pkt.len, sa)

\* StunRequest (lines 1121-1146) and StunRequest2 (lines 1076-1118): out is
\* the error of a step before a packet is received, or the packet
StunRequest(out, sa) ==
    IF out.kind = "error" THEN [ret |-> out.rc, mapped |-> sa]
    ELSE stun_handle_packet(out.pkt, NoAddr)

\* lines 1154-1156
GetExternalIPbySTUN(rnd) ==
    /\ stun.pc = "idle"
    /\ stun' = [stun EXCEPT !.pc = "step", !.rnd = rnd,
                            !.pos = (rnd[1] + 256 * rnd[2])]
    /\ UNCHANGED <<relockVars, acctVars, histVars, lockVars, stakeVars, rpc, fShutdown,
                   ret, lastArgs, nBestHeight, nReserveBalance, mapArgs, kernel>>

\* the node is built with a list of q servers (line 955)
StunList(q) ==
    /\ stun.pc = "idle"
    /\ stun' = [stun EXCEPT !.qty = q]
    /\ UNCHANGED <<relockVars, acctVars, histVars, lockVars, stakeVars, rpc, fShutdown,
                   ret, lastArgs, nBestHeight, nReserveBalance, mapArgs, kernel>>

\* one turn of the loop of lines 1158-1161
StunStep ==
    /\ stun.pc = "step"
    /\ LET rnd == ShiftRnd(stun.rnd)
           step == ModBytes(rnd, 8, stun.qty)
       IN stun' = [stun EXCEPT !.rnd = rnd, !.step = step,
                               !.pc = IF step = 0 THEN "step"
                                      ELSE IF 1 < StunAttemptLimit THEN "probe" ELSE "done",
                               !.attempt = IF step = 0 THEN 0 ELSE 1,
                               !.retval = IF step # 0 /\ ~(1 < StunAttemptLimit)
                                          THEN -1 ELSE 0]
    /\ UNCHANGED <<relockVars, acctVars, histVars, lockVars, stakeVars, rpc, fShutdown,
                   ret, lastArgs, nBestHeight, nReserveBalance, mapArgs, kernel>>

\* one turn of the loop of lines 1164-1171
StunProbe(out) ==
    /\ stun.pc = "probe"
    /\ LET pos == (stun.pos + stun.step) % stun.qty
           res == StunRequest(out, stun.mapped)
           fPacket == out.kind = "packet"
       IN stun' = [stun EXCEPT
                    !.pos = pos, !.srv = pos, !.rc = res.ret, !.mapped = res.mapped,
                    !.nProbes = @ + 1,
                    !.from = IF fPacket THEN out.pkt.from ELSE "none",
                    !.reported = IF fPacket THEN out.pkt.reported ELSE NoAddr,
                    !.pc = IF res.ret >= 0 \/ ~(stun.attempt + 1 < StunAttemptLimit)
                           THEN "done" ELSE "probe",
                    !.attempt = IF res.ret >= 0 THEN @ ELSE @ + 1,
                    !.retval = IF res.ret >= 0 THEN stun.attempt
                               ELSE IF stun.attempt + 1 < StunAttemptLimit THEN 0 ELSE -1]
    /\ UNCHANGED <<relockVars, acctVars, histVars, lockVars, stakeVars, rpc, fShutdown,
                   ret, lastArgs, nBestHeight, nReserveBalance, mapArgs, kernel>>

(***************************************************************************)
(* Kernel records (stun.cpp:1199-1255).  Time is counted in units of       *)
(* twelve hours.  nStakeMinAge and nStakeMaxAge are globals of the node    *)
(* whose values differ between networks; a kernel keeps them next to the   *)
(* record they are applied to.                                             *)
(***************************************************************************)
\* one day
nOneDay == 2

\* A probability is kept as the factors of the probability of minting no
\* stake that are not exactly 1, in the order they are multiplied: its value
\* is 1 minus their product.  The probability 0 has no factor.
ProbZero == <<>>

NoKernel == [nValue |-> -1, nTime |-> 0, nStakeMinAge |-> 0, nStakeMaxAge |-> 0,
             prevMinutes |-> 0, prevDifficulty |-> 0, prevProbability |-> ProbZero]

\* nWeight is left as it is
getCoinDayWeightNotClamped(nWeight, nMaxAge) == nWeight

\* min(nWeight, (int64_t)nStakeMaxAge)
getCoinDayWeight(nWeight, nMaxAge) == Min(nWeight, nMaxAge)

\* a record younger than nStakeMinAge is not told apart
getCoinDayTooYoungNever(nWeight) == FALSE

\* if( nWeight < 0) return 0;
getCoinDayTooYoung(nWeight) == nWeight < 0

\* the coin age is counted in coin-halfdays
getCoinDayUnitHalfDay == COIN

\* COIN * nOneDay
getCoinDayUnit == COIN * nOneDay

\* KernelRecord::getCoinDay of the record k at the adjusted time nNow
getCoinDay(k, nNow) ==
    LET nWeight == nNow - k.nTime - k.nStakeMinAge
    IN  IF getCoinDayTooYoung(nWeight) THEN 0
        ELSE (k.nValue * getCoinDayWeight(nWeight, k.nStakeMaxAge)) \div getCoinDayUnit

\* decomposeOutput builds a record from an output of the wallet: its value
\* and the time of its transaction
KernelLoad(nValue, nTime, ages) ==
    /\ kernel = NoKernel
    /\ kernel' = [nValue |-> nValue, nTime |-> nTime,
                  nStakeMinAge |-> ages.nStakeMinAge, nStakeMaxAge |-> ages.nStakeMaxAge,
                  prevMinutes |-> 0, prevDifficulty |-> 0, prevProbability |-> ProbZero]
    /\ UNCHANGED <<relockVars, acctVars, histVars, lockVars, stakeVars, rpc, fShutdown,
                   ret, lastArgs, nBestHeight, nReserveBalance, mapArgs, stun>>

\* getCoinDay() is called on the record when GetAdjustedTime() is nNow
KernelGetCoinDay(nNow) ==
    /\ kernel # NoKernel
    /\ ret' = getCoinDay(kernel, nNow)
    /\ lastArgs' = [name |-> "getCoinDay", nAdjustedTime |-> nNow]
    /\ UNCHANGED <<relockVars, acctVars, histVars, lockVars, stakeVars, rpc, fShutdown,
                   nBestHeight, nReserveBalance, mapArgs, stun, kernel>>


\* the reward of a coin age: a schedule that grows with the coin age, more
\* slowly from ten coin-days on
GetProofOfStakeReward(nCoinAge) ==
    IF nCoinAge < 10 THEN nCoinAge * CENT ELSE 10 * CENT + ((nCoinAge - 10) * CENT) \div 2

\* minutes * 60 seconds, in the time units of the model
KernelLookahead(minutes) == (minutes * 60) \div (86400 \div nOneDay)

\* a record whose weight is nStakeMinAge is also too young
getPoSRewardTooYoungOrEqual(nWeight, nMinAge) == nWeight <= nMinAge

\* if( nWeight < nStakeMinAge) return 0;
getPoSRewardTooYoung(nWeight, nMinAge) == nWeight < nMinAge

\* KernelRecord::getPoSReward(minutes) of the record k at the adjusted time nNow
getPoSReward(k, nNow, minutes) ==
    LET nWeight == nNow - k.nTime + KernelLookahead(minutes)
    IN  IF getPoSRewardTooYoung(nWeight, k.nStakeMinAge) THEN 0
        ELSE GetProofOfStakeReward((k.nValue * nWeight) \div (COIN * nOneDay))

\* getPoSReward(minutes) is called on the record when GetAdjustedTime() is nNow
KernelGetPoSReward(nNow, minutes) ==
    /\ kernel # NoKernel
    /\ ret' = getPoSReward(kernel, nNow, minutes)
    /\ lastArgs' = [name |-> "getPoSReward", nAdjustedTime |-> nNow, minutes |-> minutes]
    /\ UNCHANGED <<relockVars, acctVars, histVars, lockVars, stakeVars, rpc, fShutdown,
                   nBestHeight, nReserveBalance, mapArgs, stun, kernel>>

\* KernelRecord::getProbToMintStake: the double
\* coinAge / (pow(2, 32) * difficulty), kept as its two operands
getProbToMintStake(k, nNow, difficulty, timeOffset) ==
    LET Weight == Min(nNow - k.nTime + timeOffset, k.nStakeMinAge + k.nStakeMaxAge)
                    - k.nStakeMinAge
        coinAge == Max((k.nValue * Weight) \div (COIN * nOneDay), 0)
    IN  [coinAge |-> coinAge, difficulty |-> difficulty]

\* pow(1 - p, n) as a factor of the product: it is exactly 1 when n is 0, and
\* when p is 0 (no coin age, a difficulty above 0)
getProbFactor(p, n) ==
    IF n = 0 \/ (p.coinAge = 0 /\ p.difficulty > 0) THEN <<>> ELSE <<[p |-> p, n |-> n]>>

\* the factors of the first d days
RECURSIVE getProbDays(_, _, _, _)
getProbDays(k, nNow, difficulty, d) ==
    IF d = 0 THEN <<>>
    ELSE getProbDays(k, nNow, difficulty, d - 1)
           \o getProbFactor(getProbToMintStake(k, nNow, difficulty, (d - 1) * nOneDay),
                            nOneDay)

\* the body of the if of getProbToMintWithinNMinutes
getProbCompute(k, nNow, difficulty, minutes) ==
    LET d == minutes \div (60 * 24)
        m == minutes % (60 * 24)
    IN  getProbDays(k, nNow, difficulty, d)
          \o getProbFactor(getProbToMintStake(k, nNow, difficulty, d * nOneDay), 60 * m)

\* the cache is looked up by the difficulty alone
getProbCachedDifficultyOnly(k, difficulty, minutes) == difficulty = k.prevDifficulty

\* !(difficulty != prevDifficulty || minutes != prevMinutes)
getProbCached(k, difficulty, minutes) ==
    difficulty = k.prevDifficulty /\ minutes = k.prevMinutes

\* KernelRecord::getProbToMintWithinNMinutes: the record after the call; the
\* call returns its prevProbability
getProbToMintWithinNMinutes(k, nNow, difficulty, minutes) ==
    IF getProbCached(k, difficulty, minutes) THEN k
    ELSE [k EXCEPT !.prevProbability = getProbCompute(k, nNow, difficulty, minutes),
                   !.prevDifficulty = difficulty,
                   !.prevMinutes = minutes]

\* getProbToMintWithinNMinutes(difficulty, minutes) is called on the record
\* when GetAdjustedTime() is nNow; nCacheTime is the adjusted time at which
\* the probability of the cache was computed, the time of the call for the
\* cache of a new record
KernelGetProb(nNow, difficulty, minutes) ==
    /\ kernel # NoKernel
    /\ kernel' = getProbToMintWithinNMinutes(kernel, nNow, difficulty, minutes)
    /\ ret' = kernel'.prevProbability
    /\ lastArgs' = [name |-> "getProbToMintWithinNMinutes", nAdjustedTime |-> nNow,
                    difficulty |-> difficulty, minutes |-> minutes,
                    cached |-> kernel' = kernel,
                    nCacheTime |-> IF kernel' = kernel /\ lastArgs.name = "getProbToMintWithinNMinutes"
                                   THEN lastArgs.nCacheTime ELSE nNow]
    /\ UNCHANGED <<relockVars, acctVars, histVars, lockVars, stakeVars, rpc, fShutdown,
                   nBestHeight, nReserveBalance, mapArgs, stun>>

\* KernelRecord(hash, nTime, address, nValue, spent): idx(0).  The address of
\* the output and the cache of the probability are left out of these records.
KernelRecord(hash, nTime, nValue, spent) ==
    [hash |-> hash, nTime |-> nTime, nValue |-> nValue, idx |-> 0, spent |-> spent]

\* KernelRecord::showTransaction
showTransaction(wtx) ==
    IF wtx.fCoinBase /\ wtx.nDepth < 2 THEN FALSE
    ELSE IF ~wtx.fTrusted THEN FALSE
    ELSE TRUE

\* parts after the turns of the loop of decomposeOutput for the first n
\* outputs; wallet->IsMine(txOut) and wtx.IsSpent(nOut) are fMine and fSpent
RECURSIVE decomposeOutputParts(_, _)
decomposeOutputParts(wtx, n) ==
    IF n = 0 THEN <<>>
    ELSE LET txOut == wtx.vout[n]
             parts == decomposeOutputParts(wtx, n - 1)
         IN  IF txOut.fMine
             THEN Append(parts, KernelRecord(wtx.hash, wtx.nTime, txOut.nValue, txOut.fSpent))
             ELSE parts

\* KernelRecord::decomposeOutput
decomposeOutput(wtx) ==
    IF showTransaction(wtx) THEN decomposeOutputParts(wtx, Len(wtx.vout)) ELSE <<>>

\* the decimal digits of n >= 0, three of them at least: strprintf("%03d", n)
RECURSIVE Format03d(_)
Format03d(n) ==
    IF n < 1000 THEN <<n \div 100, (n \div 10) % 10, n % 10>>
    ELSE Append(Format03d(n \div 10), n % 10)

\* KernelRecord::getTxID: hash.ToString() + strprintf("-%03d", idx)
getTxID(k) == <<k.hash, "-">> \o Format03d(k.idx)

\* decomposeOutput(wallet, wtx) is called; one call is followed
KernelDecompose(wtx) ==
    /\ lastArgs = NoCall
    /\ ret' = decomposeOutput(wtx)
    /\ lastArgs' = [name |-> "decomposeOutput", wtx |-> wtx]
    /\ UNCHANGED <<relockVars, acctVars, histVars, lockVars, stakeVars, rpc, fShutdown,
                   nBestHeight, nReserveBalance, mapArgs, stun, kernel>>

\* no shutdown is under way, no call has returned
InitAuxVars ==
    /\ fShutdown = FALSE
    /\ ret = NoRet
    /\ lastArgs = NoCall
    /\ nBestHeight = 0
    /\ nReserveBalance = 0
    /\ mapArgs = NoArg
    /\ stun = StunIdle
    /\ kernel = NoKernel

\* the chain holds its first block, nothing is staked yet
InitStakeVars ==
    /\ InitAuxVars
    /\ nAdjustedTime = StakeGranularity
    /\ pindexBest = [hash |-> 0, nTime |-> 0]
    /\ nBlocks = 0
    /\ setSpent = {}
    /\ fSynced = FALSE
    /\ stakeMiner = [pc |-> "tick", cand |-> NoBlock]
    /\ setStakeEmitted = {}

\* no lock is owned and no handler is under way
InitLockVars ==
    /\ cs_main = NoThread
    /\ cs_wallet = NoThread
    /\ rpcThr = [r \in RpcIds |-> IdleRpc]
    /\ InitStakeVars

(***************************************************************************)
InitWalletData ==
    /\ mapWallet = <<>>
    /\ acentries = <<>>
    /\ nOrderPosNext = 0
    /\ mapAddressBook = [a \in BookAddrs |->
                            IF a = 1 THEN "A" ELSE IF a = WatchAddr THEN "B" ELSE NoEntry]
    /\ mapAccountKey = [a \in AccountNames |-> 0]
    /\ nKeysUsed = 1
    /\ nKeyPool = KeyPoolTarget
    /\ mapScripts = {}
    /\ nMalleable = 0
    /\ lastMove = NoMove
    /\ snap = NoSnap
    /\ InitLockVars

\* the unlock state of a wallet that is not encrypted
InitNotCrypted ==
    /\ now = Millis(T0)
    /\ fCrypted = FALSE
    /\ fLocked = FALSE
    /\ nWalletUnlockTime = 0
    /\ fWalletUnlockMintOnly = FALSE
    /\ csHolder = NoThread
    /\ thr = [i \in ThreadIds |-> IdleThread]
    /\ unlockDeadline = 0

(***************************************************************************)
(* SpecMove: moves between accounts while transactions arrive and confirm. *)
(***************************************************************************)
InitMove == InitNotCrypted /\ InitWalletData /\ rpc = NoRpc

NextMove ==
    \/ \E strFrom \in AccountNames, strTo \in AccountNames, nAmount \in MoveAmounts :
            movecmd(strFrom, strTo, nAmount, "ok")
    \/ \E db \in {"begin", "commit"} : movecmd("A", "B", 2, db)
    \/ ReceiveTx(1, 3, TRUE)
    \/ \E S \in SUBSET (1..MaxTx) : ConnectBlock(S)

SpecMove == InitMove /\ [][NextMove]_vars

(***************************************************************************)
(* SpecSend: sendfrom and sendmany on a wallet that receives and confirms  *)
(* transactions.  The wallet is unencrypted, or encrypted and locked, or   *)
(* encrypted and unlocked by a walletpassphrase call (for minting only or  *)
(* not) whose relocker sleeps until the longest timeout is over; no time   *)
(* passes.                                                                 *)
(***************************************************************************)
InitLocked ==
    /\ now = Millis(T0)
    /\ fCrypted = TRUE
    /\ fLocked = TRUE
    /\ nWalletUnlockTime = 0
    /\ fWalletUnlockMintOnly = FALSE
    /\ csHolder = NoThread
    /\ thr = [i \in ThreadIds |-> IdleThread]
    /\ unlockDeadline = 0

InitUnlocked ==
    /\ now = Millis(T0)
    /\ fCrypted = TRUE
    /\ fLocked = FALSE
    /\ nWalletUnlockTime = Millis(T0) + Millis(MaxTimeout)
    /\ fWalletUnlockMintOnly \in BOOLEAN
    /\ csHolder = NoThread
    /\ thr = [i \in ThreadIds |->
                 IF i = 1
                 THEN [pc |-> "sleep", parg |-> 0, nMyWakeTime |-> 0,
                       wakeAt |-> Millis(T0) + Millis(MaxTimeout)]
                 ELSE IdleThread]
    /\ unlockDeadline = Millis(T0) + Millis(MaxTimeout)

InitSend ==
    /\ InitNotCrypted \/ InitLocked \/ InitUnlocked
    /\ InitWalletData
    /\ rpc = NoRpc

\* the recipients tried: an invalid address, a valid one, a pair address,
\* and a valid address with an amount below the smallest accepted value
SendEntries == {<<InvalidAddr, 2>>, <<ExtAddr, 2>>, <<PairAddr, 2>>, <<ExtAddr, 1>>}
SendLists == UNION {[1..n -> SendEntries] : n \in 1..MaxRecipients}

\* the transactions in the memory pool
Unconfirmed == {k \in 1..Len(mapWallet) : mapWallet[k].depth = 0}

NextSend ==
    \/ \E strAccount \in {"A", "B", Wildcard}, addr \in {InvalidAddr, ExtAddr},
          nAmount \in {1, 2, 4}, nMinDepth \in MinDepths :
            sendfrom(strAccount, addr, nAmount, nMinDepth, "created")
    \/ sendfrom("A", ExtAddr, 2, 0, "failed")
    \/ \E sendTo \in SendLists, nMinDepth \in MinDepths :
            sendmany("A", sendTo, nMinDepth, "created")
    \/ \E outcome \in {"nofunds", "failed", "nocommit"} :
            sendmany("A", <<<<ExtAddr, 2>>>>, 0, outcome)
    \/ sendmany(Wildcard, <<<<ExtAddr, 2>>, <<ExtAddr, 2>>>>, 0, "created")
    \/ \E addr \in {1, WatchAddr} : ReceiveTx(addr, 3, TRUE)
    \/ ConnectBlock(Unconfirmed)

SpecSend == InitSend /\ [][NextSend]_vars

(***************************************************************************)
(* SpecNames: the calls that take an account name, each made with a name   *)
(* and with "*".  The wallet is unencrypted, or encrypted and locked, and  *)
(* holds one confirmed transaction paying 3 to its key 1.                  *)
(***************************************************************************)
InitNames ==
    /\ InitNotCrypted \/ InitLocked
    /\ mapWallet = <<WalletTx("", 0, 0, 1, 3, 1, TRUE)>>
    /\ acentries = <<>>
    /\ nOrderPosNext = 1
    /\ mapAddressBook = [a \in BookAddrs |->
                            IF a = 1 THEN "A" ELSE IF a = WatchAddr THEN "B" ELSE NoEntry]
    /\ mapAccountKey = [a \in AccountNames |-> 0]
    /\ nKeysUsed = 1
    /\ nKeyPool = KeyPoolTarget
    /\ mapScripts = {}
    /\ nMalleable = 0
    /\ lastMove = NoMove
    /\ snap = NoSnap
    /\ InitLockVars
    /\ rpc = NoRpc

NextNames ==
    \/ \E strAccount \in {"A", Wildcard} : getnewaddress(strAccount)
    \/ \E strAccount \in {"A", Wildcard} : getaccountaddress(strAccount)
    \/ \E addr \in {InvalidAddr, WatchAddr} \cup (1..nKeysUsed),
          strAccount \in {"B", Wildcard} : setaccount(addr, strAccount)
    \/ \E strAccount \in {"A", Wildcard} : getaddressesbyaccount(strAccount)
    \/ \E strAccount \in {"A", Wildcard}, typed \in BOOLEAN :
            getreceivedbyaccount(strAccount, 1, typed)
    \/ \E strFrom \in {"A", Wildcard} : movecmd(strFrom, "B", 2, "ok")
    \/ movecmd("A", Wildcard, 2, "ok")
    \/ \E strAccount \in {"A", Wildcard} : sendfrom(strAccount, ExtAddr, 2, 0, "created")
    \/ \E strAccount \in {"A", Wildcard} :
            sendmany(strAccount, <<<<ExtAddr, 2>>>>, 0, "created")
    \/ \E strAccount \in {"A", Wildcard}, typed \in BOOLEAN :
            addmultisigaddress(1, 1, "ok", 1, strAccount, typed)
    \/ \E nRequired \in {0, 2}, keys \in {"ok", "bad", "toolong"} :
            addmultisigaddress(nRequired, 1, keys, 1, "A", TRUE)
    \/ \E keys \in {"bad", "toolong"} : addmultisigaddress(1, 1, keys, 1, "A", TRUE)
    \/ \E strAccount \in {"A", Wildcard}, hex \in BOOLEAN, j \in ScriptIds :
            addredeemscript(j, strAccount, hex)
    \/ \E strAccount \in {"A", Wildcard}, outcome \in {"created", "failed"} :
            newmalleablekey(strAccount, outcome)

SpecNames == InitNames /\ [][NextNames]_vars

(***************************************************************************)
(* SpecRelock: an encrypted wallet starts locked, an unencrypted one is    *)
(* never locked.                                                           *)
(***************************************************************************)
InitRelock ==
    /\ now = Millis(T0)
    /\ fCrypted \in BOOLEAN
    /\ fLocked = fCrypted
    /\ nWalletUnlockTime = 0
    /\ fWalletUnlockMintOnly = FALSE
    /\ csHolder = NoThread
    /\ thr = [i \in ThreadIds |-> IdleThread]
    /\ unlockDeadline = 0
    /\ rpc = NoRpc
    /\ InitWalletData

NextRelock ==
    \/ \E timeout \in Timeouts, mintonly \in {"absent", "true", "false"} :
            walletpassphrase("good", timeout, mintonly)
    \/ \E pass \in {"bad", ""} : walletpassphrase(pass, 1, "absent")
    \/ walletlock
    \/ \E r \in RpcIds : walletlockLock(r)
    \/ \E r \in RpcIds : walletlockLocked(r)
    \/ \E i \in ThreadIds : ThreadStart(i)
    \/ \E i \in ThreadIds : ThreadEnter(i)
    \/ \E i \in ThreadIds : ThreadBody(i)
    \/ \E i \in ThreadIds : ThreadWake(i)
    \/ \E i \in ThreadIds : ThreadLoop(i)
    \/ \E i \in ThreadIds : ThreadRelock(i)
    \/ \E i \in ThreadIds : ThreadRelocked(i)
    \/ Tick

SpecRelock == InitRelock /\ [][NextRelock]_vars


(***************************************************************************)
(* SpecMint: SpecRelock together with the sending calls.                   *)
(***************************************************************************)
NextMint ==
    \/ NextRelock
    \/ \E outcome \in {"created", "failed"} : sendtoaddress(ExtAddr, 2, outcome)
    \/ \E outcome \in {"created", "failed"} : mergecoins(2, 2, 2, outcome)
    \/ \E outcome \in {"created", "failed"} : sendfrom("", ExtAddr, 2, 0, outcome)
    \/ \E outcome \in {"created", "failed"} : sendmany("", <<<<ExtAddr, 2>>>>, 0, outcome)

SpecMint == InitRelock /\ [][NextMint]_vars

(***************************************************************************)
(* SpecUnlockOnly: the same system when walletlock is never called (the    *)
(* scenario of two walletpassphrase calls in a row).                       *)
(***************************************************************************)
NextUnlockOnly ==
    \/ \E timeout \in Timeouts, mintonly \in {"absent", "true", "false"} :
            walletpassphrase("good", timeout, mintonly)
    \/ \E pass \in {"bad", ""} : walletpassphrase(pass, 1, "absent")
    \/ \E i \in ThreadIds : ThreadStart(i)
    \/ \E i \in ThreadIds : ThreadEnter(i)
    \/ \E i \in ThreadIds : ThreadBody(i)
    \/ \E i \in ThreadIds : ThreadWake(i)
    \/ \E i \in ThreadIds : ThreadLoop(i)
    \/ \E i \in ThreadIds : ThreadRelock(i)
    \/ \E i \in ThreadIds : ThreadRelocked(i)
    \/ Tick

SpecUnlockOnly == InitRelock /\ [][NextUnlockOnly]_vars

(***************************************************************************)
(* SpecLocks: the unlock and relock code together with the handlers of     *)
(* this file that take cs_main or cs_wallet.  A handler is entered with no *)
(* lock owned.  The thread that tops up the key pool (line 1576) runs code *)
(* of the wallet and is left out.                                          *)
(***************************************************************************)
\* the last second of the run begins
InitLocks ==
    /\ now = Millis(MaxTime) - Millis(1)
    /\ fCrypted \in BOOLEAN
    /\ fLocked = fCrypted
    /\ nWalletUnlockTime = 0
    /\ fWalletUnlockMintOnly = FALSE
    /\ csHolder = NoThread
    /\ thr = [i \in ThreadIds |-> IdleThread]
    /\ unlockDeadline = 0
    /\ rpc = NoRpc
    /\ InitWalletData

NextLocks ==
    \/ walletpassphrase("good", 1, "absent")
    \/ walletlock
    \/ \E r \in RpcIds : walletlockLock(r)
    \/ \E r \in RpcIds : walletlockLocked(r)
    \/ \E i \in ThreadIds : ThreadStart(i)
    \/ \E i \in ThreadIds : ThreadEnter(i)
    \/ \E i \in ThreadIds : ThreadBody(i)
    \/ \E i \in ThreadIds : ThreadWake(i)
    \/ \E i \in ThreadIds : ThreadLoop(i)
    \/ \E i \in ThreadIds : ThreadRelock(i)
    \/ \E i \in ThreadIds : ThreadRelocked(i)
    \/ Tick
    \/ resendwallettransactions
    \/ \E r \in RpcIds : resendLockSecond(r)
    \/ \E r \in RpcIds : resendReturn(r)
    \/ \E more \in BOOLEAN : listaddressgroupings(more)
    \/ \E r \in RpcIds : listLock(r)
    \/ \E r \in RpcIds, more \in BOOLEAN : listUnlock(r, more)

SpecLocks == InitLocks /\ [][NextLocks]_vars

(***************************************************************************)
(* SpecEnc: the calls that depend on the encryption state of the wallet,   *)
(* on a wallet that starts unencrypted or encrypted and locked.            *)
(***************************************************************************)
NextEnc ==
    \/ \E mintonly \in {"absent", "true"} : walletpassphrase("good", 1, mintonly)
    \/ walletpassphrase("bad", 1, "absent")
    \/ walletlock
    \/ \E r \in RpcIds : walletlockLock(r)
    \/ \E r \in RpcIds : walletlockLocked(r)
    \/ \E i \in ThreadIds : ThreadStart(i)
    \/ \E i \in ThreadIds : ThreadEnter(i)
    \/ \E i \in ThreadIds : ThreadBody(i)
    \/ \E i \in ThreadIds : ThreadWake(i)
    \/ \E i \in ThreadIds : ThreadLoop(i)
    \/ \E i \in ThreadIds : ThreadRelock(i)
    \/ \E i \in ThreadIds : ThreadRelocked(i)
    \/ Tick
    \/ \E strOld \in {"good", "bad", ""}, nParams \in {1, 2}, fLockedAfter \in BOOLEAN :
            walletpassphrasechange(strOld, "good", nParams, fLockedAfter)
    \/ \E strWalletPass \in {"good", ""}, nParams \in {1, 2}, outcome \in {"ok", "failed"} :
            encryptwallet(strWalletPass, nParams, outcome)

SpecEnc == InitLocks /\ [][NextEnc]_vars

(***************************************************************************)
(* SpecList: listtransactions on a wallet that holds up to MaxListItems    *)
(* transactions and accounting entries in any order of arrival.            *)
(***************************************************************************)
\* what a wallet item can be: a payment from account "A" to somebody else,
\* a payment from "A" to the wallet's own address of "A", a payment received
\* on that address, one received on the watch-only address of "B", and a
\* move to "A" or to "B"
ListShapes ==
    {[kind |-> "tx", wtx |-> WalletTx("A", 2, 1, ExtAddr, 0, 1, TRUE)],
     [kind |-> "tx", wtx |-> WalletTx("A", 2, 1, 1, 2, 0, TRUE)],
     [kind |-> "tx", wtx |-> WalletTx("", 0, 0, 1, 2, 1, TRUE)],
     [kind |-> "tx", wtx |-> WalletTx("", 0, 0, WatchAddr, 2, 1, TRUE)],
     [kind |-> "ac", account |-> "A"],
     [kind |-> "ac", account |-> "B"]}

\* the wallet transactions, or the accounting entries, of a sequence of
\* shapes; the item at place k has order position k - 1
ShapesOf(shapes, kind) ==
    LET idx == SortByPos({[nOrderPos |-> k] : k \in {j \in 1..Len(shapes) :
                                                     shapes[j].kind = kind}})
    IN [n \in 1..Len(idx) |->
            LET k == idx[n].nOrderPos IN
            IF kind = "tx"
            THEN [strFromAccount |-> shapes[k].wtx.strFromAccount,
                  nSent |-> shapes[k].wtx.nSent, nFee |-> shapes[k].wtx.nFee,
                  addr |-> shapes[k].wtx.addr, nCredit |-> shapes[k].wtx.nCredit,
                  depth |-> shapes[k].wtx.depth, fFinal |-> shapes[k].wtx.fFinal,
                  nOrderPos |-> k - 1]
            ELSE AccountingEntry(k - 1, shapes[k].account, 1, "")]

InitList ==
    /\ InitNotCrypted
    /\ rpc = NoRpc
    /\ \E n \in 0..MaxListItems : \E shapes \in [1..n -> ListShapes] :
          /\ mapWallet = ShapesOf(shapes, "tx")
          /\ acentries = ShapesOf(shapes, "ac")
          /\ nOrderPosNext = n
    /\ mapAddressBook = [a \in BookAddrs |->
                            IF a = 1 THEN "A" ELSE IF a = WatchAddr THEN "B" ELSE NoEntry]
    /\ mapAccountKey = [a \in AccountNames |-> 0]
    /\ nKeysUsed = 1
    /\ nKeyPool = KeyPoolTarget
    /\ mapScripts = {}
    /\ nMalleable = 0
    /\ lastMove = NoMove
    /\ snap = NoSnap
    /\ InitLockVars

ListCounts == {-1, 0, 1, 2, IntMax}
ListFroms == {-1, 0, 1, IntMax}

NextList ==
    \E strAccount \in {Wildcard, "A"}, nCount \in ListCounts, nFrom \in ListFroms,
       nParams \in 0..4, fWatchonly \in BOOLEAN :
        listtransactions(strAccount, nCount, nFrom, nParams, fWatchonly)

SpecList == InitList /\ [][NextList]_vars

(***************************************************************************)
(* SpecSince: listsinceblock while transactions enter the wallet and       *)
(* blocks are connected.                                                   *)
(***************************************************************************)
\* a payment from account "A" to somebody else, one received on the wallet's
\* own address, one received on the watch-only address
SinceShapes ==
    {WalletTx("A", 2, 1, ExtAddr, 0, 0, TRUE),
     WalletTx("", 0, 0, 1, 2, 0, TRUE),
     WalletTx("", 0, 0, WatchAddr, 2, 0, TRUE)}

NextSince ==
    \/ \E wtx \in SinceShapes : SinceAddTx(wtx)
    \/ \E S \in SUBSET (1..MaxTx) : SinceConnectBlock(S)
    \/ SendReply
    \/ \E h \in 0..nBestHeight, target_confirms \in 0..(nBestHeight + 2),
          nParams \in 0..3, fWatchonly \in BOOLEAN :
            listsinceblock(BlockHash(h), target_confirms, nParams, fWatchonly)

SpecSince == InitMove /\ [][NextSince]_vars

(***************************************************************************)
(* SpecReserve: reservebalance calls on a node started without             *)
(* -reservebalance.                                                        *)
(***************************************************************************)
ReserveAmounts ==
    (-1..MaxReserve) \cup {k * COIN + CENT + 1 : k \in 1..MaxReserve}

NextReserve ==
    \E nParams \in 0..3, fReserve \in BOOLEAN, nAmount \in ReserveAmounts :
        reservebalance(nParams, fReserve, nAmount)

SpecReserve == InitMove /\ [][NextReserve]_vars

(***************************************************************************)
(* SpecStun: one GetExternalIPbySTUN call; every probe fails before a      *)
(* packet is received or receives one of a few packets.                    *)
(***************************************************************************)
\* entropy: all bits clear, all bits set, a value whose first turn of the
\* loop of lines 1158-1161 gives step 0, and a value that gives step 323,
\* which has the factor 19 in common with the size of the list
StunEntropy ==
    {<<0, 0, 0, 0, 0, 0, 0, 0>>,
     <<255, 255, 255, 255, 255, 255, 255, 255>>,
     <<0, 3, 222, 0, 0, 0, 0, 0>>,
     <<0, 6, 0, 0, 0, 0, 0, 0>>}

\* the address the probed server sees the request come from, and another
ServerSees == [addr |-> 7, port |-> 40000]
Forged == [addr |-> 9, port |-> 9]

MappedAttr(sa) == [attr |-> STUN_MAPPED_ADDRESS, len |-> 8, addr |-> sa.addr, port |-> sa.port]
\* the attribute ERROR-CODE of RFC 3489
ErrorAttr == [attr |-> 9, len |-> 8, addr |-> 0, port |-> 0]
Packet(from, len, attrs, reported) ==
    [from |-> from, len |-> len, msglen |-> len - StunHeaderSize, attrs |-> attrs,
     reported |-> reported]

\* a binding response with the mapped address, a binding error response,
\* a packet shorter than a header, a response cut in its attribute, and a
\* packet of another host that arrives at the socket
StunPackets ==
    {Packet("server", 32, <<MappedAttr(ServerSees)>>, ServerSees),
     Packet("server", 32, <<ErrorAttr>>, NoAddr),
     Packet("server", 8, <<>>, NoAddr),
     Packet("server", 30, <<MappedAttr(ServerSees)>>, ServerSees),
     Packet("other", 32, <<MappedAttr(Forged)>>, Forged)}

StunOutcomes ==
    {[kind |-> "error", rc |-> rc] : rc \in {-1, -3, -11}}
    \cup {[kind |-> "packet", pkt |-> pkt] : pkt \in StunPackets}

NextStun ==
    \/ \E rnd \in StunEntropy : GetExternalIPbySTUN(rnd)
    \/ StunStep
    \/ \E out \in StunOutcomes : StunProbe(out)

SpecStun == InitMove /\ [][NextStun]_vars /\ WF_vars(NextStun)

(***************************************************************************)
(* SpecStunStep: the loop of GetExternalIPbySTUN that draws step, on       *)
(* builds with server lists of several sizes.                              *)
(***************************************************************************)
\* the size of the list of the source, sizes that divide 2^64 - 1 and
\* sizes that do not, up to the largest size whose remainders step, which is
\* a uint16_t, can hold
StunListSizes ==
    {1, 2, 3, 4, 5, 7, 15, 17, 19, 47, 255, 257, 641, StunSrvListQty, 65535, 65536}

\* all bytes equal, one byte set, bytes that count up
StunStepEntropy ==
    StunEntropy
    \cup {[k \in 1..8 |-> b] : b \in {1, 85, 170, 254}}
    \cup {[k \in 1..8 |-> IF k = j THEN 255 ELSE 0] : j \in 1..8}
    \cup {<<1, 2, 3, 4, 5, 6, 7, 8>>, <<239, 205, 171, 137, 103, 69, 35, 1>>}

\* 2^64 - 1
StunAllOnes == [k \in 1..8 |-> 255]

NextStunStep ==
    \/ \E q \in StunListSizes : StunList(q)
    \/ \E rnd \in StunStepEntropy : GetExternalIPbySTUN(rnd)
    \/ StunStep

SpecStunStep == InitMove /\ [][NextStunStep]_vars /\ WF_vars(NextStunStep)

(***************************************************************************)
(* SpecAccounts: listaccounts on a wallet in which moves are made and      *)
(* transactions, final or not, arrive and confirm.  The reply of a call is *)
(* sent before the wallet changes again.                                   *)
(***************************************************************************)
NextAccounts ==
    \/ rpc = NoRpc /\ \E strFrom \in {"", "A"}, strTo \in {"A", "B"} :
                          movecmd(strFrom, strTo, 2, "ok")
    \/ rpc = NoRpc /\ \E final \in BOOLEAN : ReceiveTx(1, 3, final)
    \/ rpc = NoRpc /\ ReceiveTx(WatchAddr, 3, TRUE)
    \/ rpc = NoRpc /\ \E S \in SUBSET (1..MaxTx) : ConnectBlock(S)
    \/ rpc = NoRpc /\ \E nMinDepth \in MinDepths : listaccounts(1, nMinDepth)
    \/ rpc = NoRpc /\ \E nParams \in {0, 2} : listaccounts(nParams, 0)
    \/ SendReply

SpecAccounts == InitMove /\ [][NextAccounts]_vars

(***************************************************************************)
(* SpecGuard: walletpassphrase cut at the write of the mint-only flag,     *)
(* walletlock, the relocker threads and the sending calls that test the    *)
(* flag, on an encrypted wallet that starts locked.                        *)
(***************************************************************************)
InitGuard ==
    /\ InitRelock
    /\ fCrypted

NextGuard ==
    \/ \E timeout \in Timeouts, mintonly \in {"absent", "true"} :
            walletpassphraseUnlock("good", timeout, mintonly)
    \/ walletpassphraseUnlock("bad", 1, "true")
    \/ \E r \in RpcIds : walletpassphraseSetMintOnly(r)
    \/ walletlock
    \/ \E r \in RpcIds : walletlockLock(r)
    \/ \E r \in RpcIds : walletlockLocked(r)
    \/ \E i \in ThreadIds : ThreadStart(i)
    \/ \E i \in ThreadIds : ThreadEnter(i)
    \/ \E i \in ThreadIds : ThreadBody(i)
    \/ \E i \in ThreadIds : ThreadWake(i)
    \/ \E i \in ThreadIds : ThreadLoop(i)
    \/ \E i \in ThreadIds : ThreadRelock(i)
    \/ \E i \in ThreadIds : ThreadRelocked(i)
    \/ Tick
    \/ sendfrom("", ExtAddr, 2, 0, "failed")
    \/ sendmany("", <<<<ExtAddr, 2>>>>, 0, "failed")

SpecGuard == InitGuard /\ [][NextGuard]_vars

(***************************************************************************)
(* SpecKernel: getCoinDay on one kernel record, under several pairs of     *)
(* stake ages and at several adjusted times.                               *)
(***************************************************************************)
\* nStakeMinAge and nStakeMaxAge: one day and four days, a day and a half
\* and four days, twelve days and fifteen days
KernelAges == {[nStakeMinAge |-> 2, nStakeMaxAge |-> 8],
               [nStakeMinAge |-> 3, nStakeMaxAge |-> 8],
               [nStakeMinAge |-> 24, nStakeMaxAge |-> 30]}

\* values of an output: nothing, the smallest unit, a little more than a
\* coin, a hundred coins
KernelValues == {0, 1, COIN + 1, 100 * COIN}

\* the adjusted times of the calls: two of them are ten days apart
KernelNows == {MaxKernelTime - 2, MaxKernelTime - 2 + 10 * nOneDay}

\* the lookahead of a call: none, half a day, two days, twenty days
KernelMinutes == {0, 720, 2880, 28800}

NextKernel ==
    \/ \E nValue \in KernelValues, nTime \in 0..MaxKernelTime, ages \in KernelAges :
          KernelLoad(nValue, nTime, ages)
    \/ \E nNow \in KernelNows : KernelGetCoinDay(nNow)
    \/ \E nNow \in KernelNows, minutes \in KernelMinutes : KernelGetPoSReward(nNow, minutes)

SpecKernel == InitMove /\ [][NextKernel]_vars

(***************************************************************************)
(* SpecDecompose: decomposeOutput on wallet transactions of up to MaxOuts  *)
(* outputs.                                                                *)
(***************************************************************************)
\* an output: its value, whether it is the wallet's, whether it is spent
KernelOuts == [nValue : {1, COIN}, fMine : BOOLEAN, fSpent : BOOLEAN]

\* the outputs of a transaction
KernelVouts == UNION {[1..n -> KernelOuts] : n \in 0..MaxOuts}

\* wallet transactions: coinbase or not, at depth 0 to 2, trusted or not
KernelTxs == [hash : {1, 2}, nTime : {MaxKernelTime - 8}, fCoinBase : BOOLEAN,
              nDepth : 0..2, fTrusted : BOOLEAN, vout : KernelVouts]

NextDecompose == \E wtx \in KernelTxs : KernelDecompose(wtx)

SpecDecompose == InitMove /\ [][NextDecompose]_vars

(***************************************************************************)
(* SpecProb: getProbToMintWithinNMinutes on one kernel record, called      *)
(* again and again with several difficulties and numbers of minutes.       *)
(***************************************************************************)
\* the times of the transaction of the record
KernelProbTimes == {MaxKernelTime - 30, MaxKernelTime - 8, MaxKernelTime - 3}

\* the difficulties of the calls
KernelDifficulties == {0, 1, 2}

\* the minutes of the calls: none, one, a day, a day and a minute, two days
\* and a minute
KernelProbMinutes == {0, 1, 60 * 24, 60 * 24 + 1, 2 * 60 * 24 + 1}

NextProb ==
    \/ \E nValue \in KernelValues, nTime \in KernelProbTimes, ages \in KernelAges :
          KernelLoad(nValue, nTime, ages)
    \/ \E nNow \in KernelNows, difficulty \in KernelDifficulties,
          minutes \in KernelProbMinutes : KernelGetProb(nNow, difficulty, minutes)

SpecProb == InitMove /\ [][NextProb]_vars

(***************************************************************************)
(* SpecStake: the stake miner on a wallet that is unencrypted, or locked,  *)
(* or unlocked (for minting only or not), while other nodes extend and     *)
(* reorganise the chain and time passes.                                   *)
(***************************************************************************)
InitStake ==
    /\ InitNotCrypted \/ InitLocked \/ InitUnlocked
    /\ InitWalletData
    /\ rpc = NoRpc

NextStake ==
    \/ \E outcome \in {"signed", "transient", "fatal"} : StakeTick(outcome)
    \/ \E valid \in BOOLEAN : StakeAnswer(valid)
    \/ \E nTime \in (pindexBest.nTime + 1)..(nAdjustedTime + MaxFutureDrift),
          R \in SUBSET setSpent : NewTip(nTime, R)
    \/ AdvanceTime
    \/ \E synced \in BOOLEAN : SetSynced(synced)

SpecStake == InitStake /\ [][NextStake]_vars

(***************************************************************************)
(* Claims                                                                  *)
(***************************************************************************)
\* a relocker that has entered its timed-wait loop (line 1515) and not left it
InWaitLoop(i) == thr[i].pc \in {"sleep", "loop"}

Unlocked == fCrypted /\ ~fLocked

\* C1: at any instant at most one relocker worker is inside its timed-wait
\* loop, under every interleaving of walletpassphrase, walletlock and
\* relocker wake-ups.
C1_RelockerUniqueness == Cardinality({i \in ThreadIds : InWaitLoop(i)}) <= 1

C3_TimedRelock == Unlocked => now <= unlockDeadline


\* C9: move(a, b, X) followed directly by move(b, a, X) returns every account
\* balance, at every minconf, to its value before the first move, and the
\* four accounting entries the two moves wrote sum to zero.
LastFourSum(entries) ==
    LET n == Len(entries) IN
    entries[n].nCreditDebit + entries[n - 1].nCreditDebit
    + entries[n - 2].nCreditDebit + entries[n - 3].nCreditDebit

C9_MoveRoundTrip ==
    [][(/\ rpc'.name = "move" /\ rpc'.code = "ok"
        /\ lastMove # NoMove
        /\ lastMove'.from = lastMove.to
        /\ lastMove'.to = lastMove.from
        /\ lastMove'.amount = lastMove.amount)
       => /\ \A acct \in AccountNames, m \in MinDepths :
                GetAccountBalance(acct, m, FilterSpendable)' = snap[acct, m]
          /\ LastFourSum(acentries') = 0]_vars

\* a round trip between two different accounts has completed while account
\* "A" holds a confirmed credit
C9_Witness ==
    /\ rpc.name = "move" /\ rpc.code = "ok"
    /\ Len(acentries) >= 4
    /\ LET n == Len(acentries) IN
        /\ acentries[n].strAccount = acentries[n - 3].strAccount
        /\ acentries[n].strAccount # acentries[n - 1].strAccount
        /\ acentries[n - 1].strAccount = acentries[n - 2].strAccount
        /\ acentries[n].nCreditDebit = 0 - acentries[n - 3].nCreditDebit
    /\ GetAccountBalance("A", 1, FilterSpendable) = 3
    /\ GetAccountBalance("B", 1, FilterSpendable) = 0


\* the wallet is unlocked for minting only
MintOnlyUnlocked == Unlocked /\ fWalletUnlockMintOnly

\* C4: while the wallet is unlocked for minting only, sendtoaddress,
\* sendfrom, sendmany and mergecoins are each rejected with the
\* unlock-needed error and create no transaction.
C4_MintOnlyRejectsSends ==
    [][(MintOnlyUnlocked /\ rpc'.name \in {"sendtoaddress", "sendfrom", "sendmany", "mergecoins"})
         => (rpc'.code = "RPC_WALLET_UNLOCK_NEEDED" /\ mapWallet' = mapWallet)]_vars


\* C8 as stated, read in its favour (an account other than "*", a valid
\* address that is no pair address, acceptable entries before it): a sendmany
\* call whose recipients name the same address twice fails with the
\* invalid-address-or-key error and creates no transaction.
C8_DuplicateIsInvalidAddress ==
    [][(rpc'.name = "sendmany" /\ ~rpc'.star /\ rpc'.args.cleanDup)
         => (rpc'.code = "RPC_INVALID_ADDRESS_OR_KEY" /\ mapWallet' = mapWallet)]_vars

\* C8 amended: a sendmany call from an account other than "*" whose
\* recipients repeat a valid address that is no pair address, all entries
\* before the repetition being acceptable, fails with the invalid-parameter
\* error, whatever the lock state and the balance, and creates no transaction.
C8_DuplicateIsInvalidParameter ==
    [][(rpc'.name = "sendmany" /\ ~rpc'.star /\ rpc'.args.cleanDup)
         => (rpc'.code = "RPC_INVALID_PARAMETER" /\ mapWallet' = mapWallet)]_vars

\* a duplicate was rejected on a wallet that was unlocked and held enough
\* confirmed funds in the account for the whole request
C8_Witness ==
    /\ rpc.name = "sendmany" /\ rpc.args.cleanDup /\ ~rpc.star
    /\ rpc.code = "RPC_INVALID_PARAMETER"
    /\ ~rpc.args.over
    /\ EnsureWalletIsUnlocked = "ok"
    /\ GetAccountBalance("A", 1, FilterSpendable) >= 3

\* C10 as stated, for calls whose account, addresses and amounts are
\* accepted: sendfrom and sendmany fail with the insufficient-funds error and
\* create no transaction whenever the total asked for exceeds the spendable
\* balance of the account at the given minconf.
C10_OverBalanceIsInsufficientFunds ==
    [][(rpc'.name \in {"sendfrom", "sendmany"} /\ rpc'.args.over /\ rpc'.args.valid)
         => (rpc'.code = "RPC_WALLET_INSUFFICIENT_FUNDS" /\ mapWallet' = mapWallet)]_vars

\* C10 amended: the same, for calls made while the wallet is unlocked for
\* sending (not locked and not unlocked for minting only).
C10_InsufficientFunds ==
    [][(/\ rpc'.name \in {"sendfrom", "sendmany"}
        /\ rpc'.args.over
        /\ rpc'.args.valid
        /\ EnsureWalletIsUnlocked = "ok")
         => (rpc'.code = "RPC_WALLET_INSUFFICIENT_FUNDS" /\ mapWallet' = mapWallet)]_vars

\* a send was refused for lack of funds although the account shows more than
\* the amount asked for once watch-only credits are counted
C10_Witness ==
    /\ rpc.name = "sendfrom"
    /\ rpc.code = "RPC_WALLET_INSUFFICIENT_FUNDS"
    /\ rpc.args.over /\ rpc.args.valid
    /\ GetAccountBalance("B", 0, FilterSpendable) = 0
    /\ GetAccountBalance("B", 0, FilterAll) >= 2


\* C7 as stated, for calls whose arguments have the JSON types asked for:
\* every call that takes an account name rejects the name "*" with the
\* invalid-account-name error and writes nothing.
C7_WildcardIsInvalidAccountName ==
    [][(rpc'.star /\ rpc'.args.typed)
         => (rpc'.code = "RPC_WALLET_INVALID_ACCOUNT_NAME" /\ UNCHANGED acctVars)]_vars

\* C7 amended: a call that names the account "*" writes nothing (no key
\* leaves the pool, no address-book entry, account key, script, malleable
\* key, accounting entry or transaction is written); its error is the
\* invalid-account-name error, unless it is setaccount with an invalid
\* address or one of its earlier arguments has the wrong JSON type.
C7_WildcardRejected ==
    [][rpc'.star
         => /\ UNCHANGED acctVars
            /\ rpc'.code # "ok"
            /\ (rpc'.args.typed /\ (rpc'.name = "setaccount" => rpc'.args.valid))
                 => rpc'.code = "RPC_WALLET_INVALID_ACCOUNT_NAME"]_vars

\* "*" was rejected by a call that would otherwise have taken a key from the
\* pool: the wallet is unlocked for sending and holds funds
C7_Witness ==
    /\ rpc.star /\ rpc.code = "RPC_WALLET_INVALID_ACCOUNT_NAME"
    /\ rpc.name = "getnewaddress"
    /\ nKeysUsed < MaxKeys
    /\ EnsureWalletIsUnlocked = "ok"
    /\ GetAccountBalance("A", 0, FilterSpendable) >= 2


(***************************************************************************)
(* Waiting for locks                                                       *)
(***************************************************************************)
AllThreads == ThreadIds \cup RpcIds

\* the lock thread t has asked for and not been given, "none" when it has
\* asked for none
WaitsFor(t) ==
    IF t \in ThreadIds
    THEN CASE thr[t].pc = "enter" -> "cs_nWalletUnlockTime"
           [] thr[t].pc = "sleep" /\ now >= thr[t].wakeAt -> "cs_nWalletUnlockTime"
           [] thr[t].pc = "relock" -> LockMutex
           [] OTHER -> "none"
    ELSE CASE rpcThr[t].pc = "lock" -> LockMutex
           [] rpcThr[t].pc = "lock2" -> resendLockOrder[2]
           [] rpcThr[t].pc = "book" -> "cs_wallet"
           [] OTHER -> "none"

\* the thread that owns the lock t waits for, NoThread when t can go on
BlockedBy(t) == IF WaitsFor(t) = "none" THEN NoThread ELSE Holder(WaitsFor(t))

\* following at most n waits from u leads to t
RECURSIVE WaitLeadsTo(_, _, _)
WaitLeadsTo(u, t, n) ==
    /\ n > 0
    /\ BlockedBy(u) # NoThread
    /\ (BlockedBy(u) = t \/ WaitLeadsTo(BlockedBy(u), t, n - 1))

CyclicWait == \E t \in AllThreads : WaitLeadsTo(t, t, Cardinality(AllThreads))

\* C6: no thread takes cs_main while it owns cs_wallet; no thread takes
\* cs_nWalletUnlockTime while it owns cs_wallet or cs_main, so the wallet's
\* lock is taken under cs_nWalletUnlockTime only in that order, and only by
\* the relocker and walletlock; the threads that wait for cs_main, cs_wallet
\* and cs_nWalletUnlockTime never wait for one another in a cycle.
C6_LockOrdering ==
    /\ [][\A t \in AllThreads :
            /\ (cs_main' = t /\ cs_main # t) => cs_wallet # t
            /\ (csHolder' = t /\ csHolder # t) => (cs_wallet # t /\ cs_main # t)
            /\ (cs_wallet' = t /\ cs_wallet # t /\ csHolder = t)
                  => (t \in ThreadIds \/ rpcThr[t].op = "walletlock")]_vars
    /\ []~CyclicWait

\* resendwallettransactions owns cs_main and cs_wallet while a relocker
\* that owns cs_nWalletUnlockTime waits for cs_wallet and
\* listaddressgroupings waits for cs_wallet too
C6_Witness ==
    /\ \E r \in RpcIds : cs_main = r /\ cs_wallet = r
    /\ \E i \in ThreadIds : csHolder = i /\ thr[i].pc = "relock"
    /\ \E r \in RpcIds : rpcThr[r].pc = "book"


C11_WrongEncState ==
    [][(\/ /\ rpc'.name \in {"walletpassphrase", "walletpassphrasechange", "walletlock"}
           /\ ~fCrypted
        \/ /\ rpc'.name = "encryptwallet"
           /\ fCrypted)
       => /\ rpc'.code = "RPC_WALLET_WRONG_ENC_STATE"
          /\ UNCHANGED <<fCrypted, fLocked, nWalletUnlockTime, fWalletUnlockMintOnly,
                         csHolder, thr, rpcThr, fShutdown>>]_vars

\* encryptwallet was rejected on a wallet that an earlier encryptwallet
\* call of the same run encrypted, after walletlock was rejected on it
C11_Witness ==
    /\ rpc.name = "encryptwallet"
    /\ rpc.code = "RPC_WALLET_WRONG_ENC_STATE"
    /\ fShutdown
    /\ fLocked


\* the rows at positions nFrom .. nFrom + nCount - 1 of a newest-first stream
RowsAt(stream, nFrom, nCount) ==
    IF nFrom >= Len(stream) THEN <<>>
    ELSE SubSeq(stream, nFrom + 1,
                IF nCount > Len(stream) - nFrom THEN Len(stream) ELSE nFrom + nCount)

\* the newest-first row stream of an account: the rows of every item of the
\* merged stream, the item with the highest order position first
RowStream(strAccount, filter) ==
    LET txOrdered == OrderedTxItems(strAccount) IN
    ListLoop(txOrdered, Len(txOrdered), <<>>, IntMax, strAccount, filter)

\* C12: for count >= 0 and from >= 0, listtransactions(account, count, from)
\* returns the rows at positions from .. from+count-1 of the newest-first
\* row stream of the account, oldest first, and never more than count rows.
C12_Paging ==
    [][(/\ rpc'.name = "listtransactions"
        /\ lastArgs'.nParams <= 3
        /\ lastArgs'.nCount >= 0
        /\ lastArgs'.nFrom >= 0)
       => /\ rpc'.code = "ok"
          /\ ret' = Reverse(RowsAt(RowStream(lastArgs'.strAccount, FilterSpendable),
                                   lastArgs'.nFrom, lastArgs'.nCount))
          /\ Len(ret') <= lastArgs'.nCount]_vars

\* C13: a listtransactions call with four parameters is accepted; with
\* watchonly = true the rows are built with the filter that includes
\* watch-only outputs, with false or without it with the spendable-only one.
C13_WatchonlyParameter ==
    [][rpc'.name = "listtransactions"
       => /\ lastArgs'.nParams = 4 => rpc'.code # "runtime_error"
          /\ (rpc'.code = "ok" /\ lastArgs'.nCount <= IntMax - lastArgs'.nFrom)
              => ret' = Reverse(RowsAt(RowStream(lastArgs'.strAccount,
                                                IF lastArgs'.fWatchonly
                                                THEN FilterAll ELSE FilterSpendable),
                                      lastArgs'.nFrom, lastArgs'.nCount))]_vars


\* the elements of a sequence
Range(seq) == {seq[k] : k \in 1..Len(seq)}

\* C14: listsinceblock with the hash of a known block and target-confirms
\* from 1 to best-height + 1 lists exactly the wallet transactions whose
\* depth in the main chain is less than best-height - block.height + 1 (the
\* rows of the result are the rows of these transactions and of no other),
\* and lastblock is the hash of the main-chain block at height
\* best-height - target-confirms + 1; target-confirms below 1 is rejected
\* as an invalid parameter.
C14_ListSinceBlock ==
    [][(rpc'.name = "listsinceblock" /\ lastArgs'.nParams >= 2)
       => IF lastArgs'.target_confirms < 1
          THEN rpc'.code = "RPC_INVALID_PARAMETER" /\ ret' = NoRet
          ELSE lastArgs'.target_confirms <= nBestHeight + 1
               => /\ rpc'.code = "ok"
                  /\ Range(ret'.transactions)
                       = UNION {Range(ListTransactions(
                                        mapWallet[k], Wildcard, 0,
                                        IF lastArgs'.fWatchonly
                                        THEN FilterAll ELSE FilterSpendable)) :
                                  k \in {j \in 1..Len(mapWallet) :
                                           mapWallet[j].depth
                                             < nBestHeight
                                               - GetBlockIndex(lastArgs'.blockId) + 1}}
                  /\ ret'.lastblock
                       = BlockHash(nBestHeight - lastArgs'.target_confirms + 1)]_vars

\* a call since the block before the best one, with two confirmations asked
\* for, listed the transaction of the best block and left out an older one
C14_Witness ==
    /\ rpc.name = "listsinceblock"
    /\ rpc.code = "ok"
    /\ lastArgs.nParams >= 2
    /\ lastArgs.target_confirms = 2
    /\ nBestHeight = 2
    /\ lastArgs.blockId = BlockHash(1)
    /\ ret.lastblock = BlockHash(1)
    /\ \E k \in 1..Len(mapWallet) :
          /\ mapWallet[k].depth = 1
          /\ \E n \in 1..Len(ret.transactions) :
                ret.transactions[n].nOrderPos = mapWallet[k].nOrderPos
    /\ \E k \in 1..Len(mapWallet) :
          /\ mapWallet[k].depth = 2
          /\ mapWallet[k].addr = 1
          /\ \A n \in 1..Len(ret.transactions) :
                ret.transactions[n].nOrderPos # mapWallet[k].nOrderPos


\* C15: every reservebalance call leaves a stored reserve that is a
\* non-negative multiple of CENT: an accepted reservebalance(true, a) stores
\* a rounded to CENT, an accepted reservebalance(false) stores 0, and every
\* rejected call (among them one with a negative amount, true without an
\* amount, false with an amount) leaves the stored reserve unchanged; the
\* flag reserve of the reply is true exactly when the stored amount is
\* greater than 0.
C15_ReserveBalance ==
    [][rpc'.name = "reservebalance"
       => /\ nReserveBalance' >= 0
          /\ nReserveBalance' % CENT = 0
          /\ (rpc'.code = "ok" /\ lastArgs'.nParams >= 1 /\ lastArgs'.fReserve)
                => /\ nReserveBalance' = lastArgs'.nAmount - (lastArgs'.nAmount % CENT)
                   /\ lastArgs'.nAmount - nReserveBalance' < CENT
          /\ (rpc'.code = "ok" /\ lastArgs'.nParams >= 1 /\ ~lastArgs'.fReserve)
                => nReserveBalance' = 0
          /\ rpc'.code # "ok" => nReserveBalance' = nReserveBalance
          /\ (\/ lastArgs'.nParams = 2 /\ lastArgs'.nAmount < 0
              \/ lastArgs'.nParams = 1 /\ lastArgs'.fReserve
              \/ lastArgs'.nParams = 2 /\ ~lastArgs'.fReserve)
                => rpc'.code # "ok"
          /\ rpc'.code = "ok"
                => /\ ret'.reserve = (nReserveBalance' > 0)
                   /\ ret'.amount = nReserveBalance']_vars

\* a call with a negative amount was rejected and left alone the reserve of
\* two cents that an earlier call stored
C15_Witness ==
    /\ rpc.name = "reservebalance"
    /\ rpc.code # "ok"
    /\ lastArgs.fReserve
    /\ lastArgs.nAmount < 0
    /\ nReserveBalance = 2 * CENT
    /\ mapArgs = FormatMoney(2 * CENT)


\* C16: GetExternalIPbySTUN always terminates; it issues at most
\* 2 * StunSrvListQty probes, returns the positive number of the attempt on
\* the first probe that succeeds, and returns -1 when no probe succeeded
\* within that bound.
C16_StunScanBound ==
    /\ [](stun.nProbes <= 2 * StunSrvListQty)
    /\ [](stun.pc = "done"
            => IF stun.rc >= 0
               THEN stun.retval > 0 /\ stun.retval = stun.nProbes
               ELSE stun.retval = -1)
    /\ [](stun.pc = "probe" => (stun.nProbes = 0 \/ stun.rc < 0))
    /\ (stun.pc # "idle") ~> (stun.pc = "done")

\* every probe of a scan failed and the call returned -1
C16_Witness ==
    /\ stun.pc = "done"
    /\ stun.retval = -1
    /\ stun.nProbes = 2 * StunSrvListQty - 1
    /\ stun.rc < 0

\* C17: whenever GetExternalIPbySTUN reports success, *srv names the server
\* that answered the last probe and *mapped holds the mapped address and
\* port that the response of that server reports, whatever response the
\* server sends.
C17_StunResult ==
    (stun.pc = "done" /\ stun.retval > 0)
        => /\ stun.srv = stun.pos
           /\ stun.from = "server"
           /\ stun.reported # NoAddr
           /\ stun.mapped = stun.reported

\* getCoinDay has been called on the kernel record
KernelCalled == lastArgs.name = "getCoinDay"

\* the age of the kernel record at the adjusted time of the call
KernelAge == lastArgs.nAdjustedTime - kernel.nTime

\* the record of the kernel with another nTime
KernelAt(nTime) == [kernel EXCEPT !.nTime = nTime]

\* C18, as stated: for every kernel record (value, n-time) and adjusted time
\* now, getCoinDay() equals value * clamped-weight / (COIN * ONE_DAY) in
\* integer arithmetic, where clamped-weight =
\* min(max(now - n-time - stakeMinAge, 0), stakeMaxAge - stakeMinAge).
C18_CoinDayFormulaAsStated ==
    KernelCalled
        => ret = (kernel.nValue
                    * Min(Max(KernelAge - kernel.nStakeMinAge, 0),
                          kernel.nStakeMaxAge - kernel.nStakeMinAge))
                 \div (COIN * nOneDay)

\* C18, amended: for every kernel record (value, n-time) of non-negative
\* value and adjusted time now, getCoinDay() equals
\* value * clamped-weight / (COIN * ONE_DAY) in integer arithmetic, where
\* clamped-weight = min(max(now - n-time - stakeMinAge, 0), stakeMaxAge).
C18_CoinDayFormula ==
    KernelCalled
        => ret = (kernel.nValue
                    * Min(Max(KernelAge - kernel.nStakeMinAge, 0), kernel.nStakeMaxAge))
                 \div (COIN * nOneDay)

\* getCoinDay was called on a record whose weight is over nStakeMaxAge
C18_Witness ==
    /\ KernelCalled
    /\ KernelAge - kernel.nStakeMinAge > kernel.nStakeMaxAge
    /\ ret > 0

\* C19, as stated: for a fixed non-negative value and a fixed adjusted time,
\* getCoinDay() is non-increasing as n-time increases, is zero whenever
\* adjusted-time - n-time < stakeMinAge, and is constant (independent of
\* n-time) whenever adjusted-time - n-time > stakeMaxAge.
C19_MonotonicCoinAgeAsStated ==
    KernelCalled
        => /\ \A nTime \in 0..MaxKernelTime :
                nTime >= kernel.nTime
                    => getCoinDay(KernelAt(nTime), lastArgs.nAdjustedTime) <= ret
           /\ KernelAge < kernel.nStakeMinAge => ret = 0
           /\ KernelAge > kernel.nStakeMaxAge
                => \A nTime \in 0..MaxKernelTime :
                      lastArgs.nAdjustedTime - nTime > kernel.nStakeMaxAge
                          => getCoinDay(KernelAt(nTime), lastArgs.nAdjustedTime) = ret

\* C19, amended: for a fixed non-negative value and a fixed adjusted time,
\* getCoinDay() is non-increasing as n-time increases, is zero whenever
\* adjusted-time - n-time < stakeMinAge, and is constant (independent of
\* n-time) whenever adjusted-time - n-time >= stakeMinAge + stakeMaxAge.
C19_MonotonicCoinAge ==
    KernelCalled
        => /\ \A nTime \in 0..MaxKernelTime :
                nTime >= kernel.nTime
                    => getCoinDay(KernelAt(nTime), lastArgs.nAdjustedTime) <= ret
           /\ KernelAge < kernel.nStakeMinAge => ret = 0
           /\ KernelAge >= kernel.nStakeMinAge + kernel.nStakeMaxAge
                => \A nTime \in 0..MaxKernelTime :
                      lastArgs.nAdjustedTime - nTime
                            >= kernel.nStakeMinAge + kernel.nStakeMaxAge
                          => getCoinDay(KernelAt(nTime), lastArgs.nAdjustedTime) = ret

\* getCoinDay was called on a record that has just reached its full weight,
\* and a record one time unit younger has a smaller coin age
C19_Witness ==
    /\ KernelCalled
    /\ KernelAge = kernel.nStakeMinAge + kernel.nStakeMaxAge
    /\ getCoinDay(KernelAt(kernel.nTime + 1), lastArgs.nAdjustedTime) < ret

\* C20, as stated: for a record of value 100*COIN with
\* n-time = adjusted-time - stakeMaxAge - 10*ONE_DAY, getCoinDay() equals
\* 100 * stakeMaxAge / ONE_DAY, and advancing adjusted-time by a further 10
\* days leaves getCoinDay() unchanged.
C20_CoinAgeClampAsStated ==
    (/\ KernelCalled
     /\ kernel.nValue = 100 * COIN
     /\ KernelAge = kernel.nStakeMaxAge + 10 * nOneDay)
        => /\ ret = (100 * kernel.nStakeMaxAge) \div nOneDay
           /\ getCoinDay(kernel, lastArgs.nAdjustedTime + 10 * nOneDay) = ret

\* C20, amended: for a record of value 100*COIN with
\* n-time = adjusted-time - stakeMinAge - stakeMaxAge - 10*ONE_DAY, and, when
\* stakeMinAge <= 10*ONE_DAY, also with
\* n-time = adjusted-time - stakeMaxAge - 10*ONE_DAY, getCoinDay() equals
\* 100 * stakeMaxAge / ONE_DAY, and advancing adjusted-time by a further 10
\* days leaves getCoinDay() unchanged.
C20_CoinAgeClamp ==
    (/\ KernelCalled
     /\ kernel.nValue = 100 * COIN
     /\ \/ KernelAge = kernel.nStakeMinAge + kernel.nStakeMaxAge + 10 * nOneDay
        \/ /\ kernel.nStakeMinAge <= 10 * nOneDay
           /\ KernelAge = kernel.nStakeMaxAge + 10 * nOneDay)
        => /\ ret = (100 * kernel.nStakeMaxAge) \div nOneDay
           /\ getCoinDay(kernel, lastArgs.nAdjustedTime + 10 * nOneDay) = ret

\* getCoinDay was called on a record of a hundred coins that is ten days
\* older than nStakeMinAge + nStakeMaxAge, under a nStakeMinAge of more than
\* ten days
C20_Witness ==
    /\ KernelCalled
    /\ kernel.nValue = 100 * COIN
    /\ kernel.nStakeMinAge > 10 * nOneDay
    /\ KernelAge = kernel.nStakeMinAge + kernel.nStakeMaxAge + 10 * nOneDay
    /\ ret = (100 * kernel.nStakeMaxAge) \div nOneDay

\* getPoSReward has been called on the kernel record
RewardCalled == lastArgs.name = "getPoSReward"

\* C21, as stated: getPoSReward(lookahead-minutes) returns 0 whenever the
\* lookahead is shorter than stakeMinAge, and otherwise returns
\* GetProofOfStakeReward applied to the record's coin-age (the coin-day of
\* value and n-time, zero below stakeMinAge and clamped at stakeMaxAge), taken
\* at the adjusted time or at the end of the lookahead.
C21_ExpectedRewardAsStated ==
    RewardCalled
        => IF KernelLookahead(lastArgs.minutes) < kernel.nStakeMinAge
           THEN ret = 0
           ELSE \/ ret = GetProofOfStakeReward(getCoinDay(kernel, lastArgs.nAdjustedTime))
                \/ ret = GetProofOfStakeReward(
                            getCoinDay(kernel, lastArgs.nAdjustedTime
                                                 + KernelLookahead(lastArgs.minutes)))

\* C21, amended: getPoSReward(lookahead-minutes) returns 0 whenever the age
\* of the record at the end of the lookahead, adjusted-time - n-time +
\* 60 * lookahead-minutes, is below stakeMinAge, and otherwise returns
\* GetProofOfStakeReward applied to value times that age over COIN * ONE_DAY,
\* the age being neither reduced by stakeMinAge nor clamped at stakeMaxAge.
C21_ExpectedReward ==
    RewardCalled
        => LET nAge == lastArgs.nAdjustedTime - kernel.nTime
                         + KernelLookahead(lastArgs.minutes)
           IN  ret = IF nAge < kernel.nStakeMinAge THEN 0
                     ELSE GetProofOfStakeReward(
                              (kernel.nValue * nAge) \div (COIN * nOneDay))

\* getPoSReward was called with a lookahead shorter than nStakeMinAge on a
\* record that is older than nStakeMinAge + nStakeMaxAge, and returned a
\* reward larger than that of the clamped coin age
C21_Witness ==
    /\ RewardCalled
    /\ KernelLookahead(lastArgs.minutes) < kernel.nStakeMinAge
    /\ lastArgs.nAdjustedTime - kernel.nTime > kernel.nStakeMinAge + kernel.nStakeMaxAge
    /\ ret > GetProofOfStakeReward(getCoinDay(kernel, lastArgs.nAdjustedTime))

\* C22: the mint-only flag is written only under cs_nWalletUnlockTime, and
\* under no interleaving of walletpassphrase(p, t, mintonly=true) with a
\* concurrent sendfrom or sendmany does the send pass EnsureWalletIsUnlocked
\* while the wallet is unlocked by that mint-only call.
C22_MintOnlyGuarded ==
    [][/\ fWalletUnlockMintOnly' # fWalletUnlockMintOnly => csHolder # NoThread
       /\ (/\ rpc'.name \in {"sendfrom", "sendmany"}
           /\ Unlocked
           /\ lastArgs.name = "walletpassphrase"
           /\ lastArgs.mintonly)
            => rpc'.code = "RPC_WALLET_UNLOCK_NEEDED"]_vars

\* C23: under every interleaving of walletpassphrase, walletlock and relocker
\* threads, a wallet unlocked by a successful walletpassphrase(p, timeout) is
\* not locked by a relocker before the time of that call plus its timeout;
\* only walletlock locks it earlier.
C23_NoEarlyRelock ==
    [][(Unlocked /\ fLocked' /\ rpc'.name # "walletlock") => now >= unlockDeadline]_vars

\* C24: in every reachable state in which no thread holds
\* cs_nWalletUnlockTime, an encrypted wallet that is locked has
\* nWalletUnlockTime = 0, so getinfo reports unlocked_until = 0 for it.
C24_UnlockTimeInvariant ==
    (csHolder = NoThread /\ fCrypted /\ fLocked) => nWalletUnlockTime = 0

StunProbed ==
    {(stun.pos + (stun.qty - stun.step) * k) % stun.qty : k \in 0..(stun.nProbes - 1)}

\* C26: for every entropy value the walk pos = (pos + step) % list-size
\* probes every entry of the server list at least once within its attempt
\* budget: a call that returns -1 has asked every listed server, so the call
\* succeeds if at least one listed server answers.
C26_StunWalkCoverage ==
    (stun.pc = "done" /\ stun.retval = -1) => StunProbed = 0..(stun.qty - 1)

\* C27: for every wallet state, every account a and every minconf m, the
\* balance that listaccounts(m) reports for a equals getbalance(a, m).
C27_AccountBalanceConsistency ==
    [][(rpc'.name = "listaccounts" /\ rpc'.code = "ok")
         => \A a \in DOMAIN ret' :
               ret'[a] = GetAccountBalance(a, lastArgs'.nMinDepth, FilterSpendable)]_vars

\* C28: every successful move writes exactly two accounting entries, a debit
\* of -X on the source and a credit of +X on the destination, the order
\* position of the debit strictly below that of the credit and both above
\* all earlier order positions; a move that fails (rejected amount, TxnBegin
\* or TxnCommit failure) leaves no accounting entry visible; and after any
\* sequence of moves the sum of all accounting entries is zero.
C28_MoveAtomicZeroSum ==
    /\ [][rpc'.name = "move"
            => IF rpc'.code = "ok"
               THEN LET n == Len(acentries)
                        debit == acentries'[n + 1]
                        credit == acentries'[n + 2]
                    IN /\ Len(acentries') = n + 2
                       /\ SubSeq(acentries', 1, n) = acentries
                       /\ debit.strAccount = lastMove'.from
                       /\ debit.nCreditDebit = 0 - lastMove'.amount
                       /\ credit.strAccount = lastMove'.to
                       /\ credit.nCreditDebit = lastMove'.amount
                       /\ lastMove'.amount > 0
                       /\ debit.nOrderPos < credit.nOrderPos
                       /\ debit.nOrderPos >= nOrderPosNext
                       /\ \A k \in 1..n : acentries[k].nOrderPos < debit.nOrderPos
               ELSE acentries' = acentries]_vars
    /\ [](SumSeq([k \in 1..Len(acentries) |-> acentries[k].nCreditDebit],
                 Len(acentries)) = 0)

\* a second move has succeeded after transactions took order positions, and
\* a move has failed at TxnCommit
C28_Witness ==
    /\ rpc.name = "move"
    /\ rpc.code = "ok"
    /\ Len(acentries) = 4
    /\ acentries[3].nOrderPos > acentries[2].nOrderPos + 1

ProbCalled == lastArgs.name = "getProbToMintWithinNMinutes"

\* C29: for a kernel record whose fields and the adjusted time are
\* unchanged, getProbToMintWithinNMinutes(difficulty, minutes) returns the
\* value of an uncached computation whatever calls came before it, the first
\* call on a new record, whose cache is (0, 0, 0), included; and the cache
\* is replaced by (difficulty, minutes, result) exactly when the pair of the
\* call differs from the pair of the cache.
C29_ProbCacheTransparent ==
    [][ProbCalled'
         => LET a == lastArgs'
                fSamePair == /\ a.difficulty = kernel.prevDifficulty
                             /\ a.minutes = kernel.prevMinutes
            IN  /\ a.nCacheTime = a.nAdjustedTime
                     => ret' = getProbCompute(kernel, a.nAdjustedTime, a.difficulty,
                                              a.minutes)
                /\ kernel' = IF fSamePair THEN kernel
                             ELSE [kernel EXCEPT !.prevDifficulty = a.difficulty,
                                                 !.prevMinutes = a.minutes,
                                                 !.prevProbability = ret']]_vars

\* a call was answered from the cache, at the adjusted time of the call that
\* filled it, with a probability that is not 0
C29_Witness ==
    /\ ProbCalled
    /\ lastArgs.cached
    /\ lastArgs.nCacheTime = lastArgs.nAdjustedTime
    /\ ret # ProbZero
    /\ Len(ret) = 3

DecomposeCalled == lastArgs.name = "decomposeOutput"

\* the outputs of the transaction that are the wallet's, in their order
DecomposeMine == SelectSeq(lastArgs.wtx.vout, LAMBDA txOut : txOut.fMine)

\* C30: decomposeOutput yields one record per wallet-owned output of a shown
\* transaction (trusted, and if coinbase at depth >= 2), and the records
\* built from different outputs of one transaction carry different idx
\* values, so that their getTxID() strings are pairwise distinct.
C30_KernelRecordIdentity ==
    DecomposeCalled
      => LET wtx == lastArgs.wtx
             fShown == wtx.fTrusted /\ (wtx.fCoinBase => wtx.nDepth >= 2)
         IN  /\ Len(ret) = IF fShown THEN Len(DecomposeMine) ELSE 0
             /\ \A i \in 1..Len(ret) :
                   /\ ret[i].hash = wtx.hash
                   /\ ret[i].nValue = DecomposeMine[i].nValue
                   /\ ret[i].spent = DecomposeMine[i].fSpent
             /\ \A i, j \in 1..Len(ret) :
                   i # j => /\ ret[i].idx # ret[j].idx
                            /\ getTxID(ret[i]) # getTxID(ret[j])

=============================================================================
